---------------------------- MODULE Spec2Model ----------------------------
(***************************************************************************)
(* AF_XDP forwarder (src/xdp/xdp_fwd2.c and src/xdp/xdp_fwd2_refactored.c) *)
(* as state machines: the UMEM freelist, the four rings of every socket,   *)
(* the forwarding workers, and the supervisor's construction sequence.     *)
(*                                                                         *)
(* The two source files are two programs that share most of their code.    *)
(* The variable prog says which one a behaviour is a run of:               *)
(*   "fwd2"        src/xdp/xdp_fwd2.c                                      *)
(*   "refactored"  src/xdp/xdp_fwd2_refactored.c                           *)
(* Where both define a function of the same name, the refactored one has   *)
(* the suffix _refactored here.                                            *)
(***************************************************************************)
EXTENDS Integers, Sequences, FiniteSets, TLC

(***************************************************************************)
(* Bounds of the model.                                                    *)
(***************************************************************************)
\* frames in the UMEM (64 * 1024 and 4096 in the sources)
NFrames == 3

\* u->n_frames
n_frames == NFrames

\* u->frame_size (umem_params_default.frame_size)
frame_size == 4096

Progs == {"fwd2", "refactored"}

Min(a, b) == IF a <= b THEN a ELSE b

Reverse(s) == [i \in 1..Len(s) |-> s[Len(s) + 1 - i]]

(***************************************************************************)
(* Frames and addresses.  A frame is identified by its index k; its base   *)
(* address is k * frame_size.  A descriptor address may point into the     *)
(* frame (base + offset of the packet data).                               *)
(***************************************************************************)
Frames == 0..(n_frames - 1)

FrameAddr(k) == k * frame_size

FrameAddrs == {FrameAddr(k) : k \in Frames}

\* the frame an address lies in
FrameOf(addr) == addr \div frame_size

\* offsets of the packet data inside a frame that the kernel may put into an
\* RX descriptor: none, or the XDP packet headroom
RxOffsets == {0, 256}

VARIABLES
  prog,          \* which program runs
  free_addrs,    \* u->free_addrs: array [0, n_frames) of addresses
  free_top,      \* u->free_top
  heap_smashed,  \* a store went past the end of u->free_addrs
  call,          \* freelist harness: the last call and what it returned
  prev_call,     \* freelist harness: the call before it
  lock,          \* u->lock: 0 when free, else the worker that holds it
  mw,            \* concurrent freelist callers: each one's position and locals
  n_ports,       \* number of -i entries (n_interfaces in the refactored file)
  n_threads,     \* number of -c entries (argv[1] in the refactored file)
  main_pc,       \* where main() is
  ports_done,    \* ports[0 .. ports_done) are created
  cohort,        \* thread_data[t]: the ports wired to thread t
  fq,            \* Fill rings: addresses submitted and not yet taken by the kernel
  fq_resv,       \* Fill rings: slots reserved and not yet submitted
  cq,            \* Completion rings: addresses the kernel has completed
  cq_held,       \* Completion rings: slots consumed and not yet released
  rxq,           \* RX rings: descriptors of received packets
  rx_held,       \* RX rings: slots peeked and not yet released
  txq,           \* TX rings: descriptors submitted and not yet sent
  wk,            \* forwarding threads: each one's position and locals
  umc,           \* umem_mgr_create: its position and the resources it holds
  thread_data,   \* main(): thread_data[0 .. i) as the wiring loop wrote them
  main_i,        \* main(): index of the thread launch loop
  rr,            \* thread_func on its own: cohort size, loop index, cycles done
  trace,         \* history: descriptors dequeued from RX and submitted to TX
  pkt,           \* one packet's Ethernet header: as received, as transmitted
  wake,          \* the wakeup decisions of a pump: ring flags, syscalls issued
  life,          \* main()'s resources: threads, ports, UMEM manager, exit code
  fh,            \* the fill and drain functions on their own: the last call made
  wire           \* main() with the default UMEM sizes: frames left, ports, wiring

fl_vars == <<free_addrs, free_top, heap_smashed>>
harness_vars == <<call, prev_call>>
mutex_vars == <<lock, mw>>
vars == <<prog, free_addrs, free_top, heap_smashed, call, prev_call, lock, mw,
          n_ports, n_threads, main_pc, ports_done, cohort,
          fq, fq_resv, cq, cq_held, rxq, rx_held, txq, wk,
          umc, thread_data, main_i, rr, trace,
          pkt, wake, life, fh, wire>>

cfg_vars == <<n_ports, n_threads, cohort>>
ring_vars == <<fq, fq_resv, cq, cq_held, rxq, rx_held, txq>>
more_vars == <<fh, wire>>
aux_vars == <<pkt, wake, life, more_vars>>
ext_vars == <<rr, trace, aux_vars>>
sup_core == <<umc, thread_data, main_i>>
sup_vars == <<umc, thread_data, main_i, ext_vars>>
fwd_vars == <<n_ports, n_threads, main_pc, ports_done, cohort,
              fq, fq_resv, cq, cq_held, rxq, rx_held, txq, wk, sup_vars>>

(***************************************************************************)
(* umem_mgr_create's freelist: every frame address, free_top = n_frames.   *)
(***************************************************************************)
InitFreeAddrs == [i \in 0..(n_frames - 1) |-> i * frame_size]

InitFreelist ==
  /\ free_addrs = InitFreeAddrs
  /\ free_top = n_frames
  /\ heap_smashed = FALSE

(***************************************************************************)
(* umem_alloc (xdp_fwd2.c): got = min(want, free_top), then got pops from  *)
(* the top.  The result is [got, out, free_top].                           *)
(***************************************************************************)
\* a pop loop that takes the entries from the bottom of the stack
PopLoopFromBottom(fa, top, i, got, out) ==
  [got |-> got, out |-> [k \in 1..got |-> fa[k - 1]], free_top |-> top - got]

RECURSIVE PopLoop(_, _, _, _, _)
\* for (i = 0; i < got; i++) out[i] = free_addrs[--free_top];
PopLoop(fa, top, i, got, out) ==
  IF i < got
  THEN PopLoop(fa, top - 1, i + 1, got, Append(out, fa[top - 1]))
  ELSE [got |-> got, out |-> out, free_top |-> top]

umem_alloc(fa, top, want) ==
  LET got == IF top >= want THEN want ELSE top
  IN PopLoop(fa, top, 0, got, <<>>)

(***************************************************************************)
(* umem_alloc (xdp_fwd2_refactored.c): want = 0 returns at once, else want *)
(* is cut to free_top and that many entries are popped.                    *)
(***************************************************************************)
umem_alloc_refactored(fa, top, want) ==
  IF want = 0
  THEN [got |-> 0, out |-> <<>>, free_top |-> top]
  ELSE LET avail == top
           w == IF want > avail THEN avail ELSE want
       IN PopLoop(fa, top, 0, w, <<>>)

(***************************************************************************)
(* umem_free_one (xdp_fwd2.c): free_addrs[free_top++] = addr, with no      *)
(* check of free_top against n_frames.  A store at index n_frames is a     *)
(* store past the end of the malloc'ed array: free_top is incremented, the *)
(* array itself is not changed, and the heap is marked smashed.            *)
(* The result is [free_addrs, free_top, smashed].                          *)
(***************************************************************************)
\* a free that forgets the address
umem_free_one_drop(fa, top, addr) ==
  [free_addrs |-> fa, free_top |-> top, smashed |-> FALSE]

umem_free_one(fa, top, addr) ==
  IF top < n_frames
  THEN [free_addrs |-> [fa EXCEPT ![top] = addr], free_top |-> top + 1,
        smashed |-> FALSE]
  ELSE [free_addrs |-> fa, free_top |-> top + 1, smashed |-> TRUE]

(***************************************************************************)
(* umem_free (xdp_fwd2_refactored.c): push each address while              *)
(* free_top < n_frames, drop it otherwise.                                 *)
(***************************************************************************)
\* a push loop that stores each address and does not advance free_top
PushLoopNoAdvance(fa, top, i, count, addrs) ==
  [free_addrs |-> IF count > 0 /\ top < n_frames
                  THEN [fa EXCEPT ![top] = addrs[count]] ELSE fa,
   free_top |-> top, smashed |-> FALSE]

RECURSIVE PushLoop(_, _, _, _, _)
\* for (i = 0; i < count; i++) if (free_top < n_frames) free_addrs[free_top++] = addrs[i];
PushLoop(fa, top, i, count, addrs) ==
  IF i < count
  THEN IF top < n_frames
       THEN PushLoop([fa EXCEPT ![top] = addrs[i + 1]], top + 1, i + 1, count, addrs)
       ELSE PushLoop(fa, top, i + 1, count, addrs)
  ELSE [free_addrs |-> fa, free_top |-> top, smashed |-> FALSE]

umem_free(fa, top, count, addrs) ==
  IF count = 0
  THEN [free_addrs |-> fa, free_top |-> top, smashed |-> FALSE]
  ELSE PushLoop(fa, top, 0, count, addrs)

\* a free that pushes the address twice
umem_free_one_twice(fa, top, addr) == umem_free(fa, top, 2, <<addr, addr>>)

\* umem_free_one (xdp_fwd2_refactored.c): umem_free(u, 1, &addr)
umem_free_one_refactored(fa, top, addr) == umem_free(fa, top, 1, <<addr>>)

\* the program's own umem_alloc and umem_free_one
Alloc(p, fa, top, want) ==
  IF p = "fwd2" THEN umem_alloc(fa, top, want) ELSE umem_alloc_refactored(fa, top, want)

FreeOne(p, fa, top, addr) ==
  IF p = "fwd2" THEN umem_free_one(fa, top, addr)
  ELSE umem_free_one_refactored(fa, top, addr)

(***************************************************************************)
(* The freelist on its own: one caller that calls alloc and free with any  *)
(* arguments, also addresses that are not held (double free) or that are   *)
(* no frame address.  A store past the array ends the run: what the        *)
(* program does after it is not defined.                                   *)
(***************************************************************************)
\* addresses the caller may pass to free: every frame address, and one
\* address that is no frame's base
TestAddrs == FrameAddrs \cup {FrameAddr(1) + 256}

\* the arrays the caller passes to the bulk free: the empty one and every pair
\* of frame addresses
FreeBatches == {<<>>} \cup {<<a, b>> : a \in FrameAddrs, b \in FrameAddrs}

\* the live part of the stack, bottom first
Live(fa, top) == [i \in 1..Min(top, n_frames) |-> fa[i - 1]]

\* the harness has recorded no call
NoCall == [op |-> "none"]

HarnessOff == call = NoCall /\ prev_call = NoCall

\* workers that call the freelist
NWorkers == 2

Workers == 1..NWorkers

\* most addresses one umem_alloc call asks for
MaxWant == 2

MIdle == [pc |-> "idle", reg |-> 0, got |-> 0, i |-> 0, out |-> <<>>,
          args |-> <<>>, held |-> <<>>]

MutexOff ==
  /\ lock = 0
  /\ mw = [w \in Workers |-> MIdle]

(***************************************************************************)
(* The forwarder: main() up to the launch of the threads, the forwarding   *)
(* threads, and the kernel on the other side of the rings.                 *)
(***************************************************************************)
\* most ports (-i entries) of a run
MaxPorts == 2

\* slots of every ring (fill_size, comp_size, rx_size, tx_size)
RingSize == 2

PortIds == 0..(MaxPorts - 1)

ThreadIds == 0..(NWorkers - 1)

\* umem_cfg.fill_size, umem_cfg.comp_size, xsk_cfg.rx_size, xsk_cfg.tx_size
fill_size == RingSize

comp_size == RingSize

rx_size == RingSize

tx_size == RingSize

\* u64 tmp[4096] in port_init
TmpSize == 4096

\* the batch of the completion drains that do not use comp_size
CqBatch == 64

\* n_interfaces of the refactored main()
n_interfaces == 2

\* packet lengths the kernel may report
Lens == {60}

RECURSIVE BitAnd(_, _)
\* a & b on naturals
BitAnd(a, b) ==
  IF a = 0 \/ b = 0 THEN 0
  ELSE (IF a % 2 = 1 /\ b % 2 = 1 THEN 1 ELSE 0) + 2 * BitAnd(a \div 2, b \div 2)

(***************************************************************************)
(* umem_mgr_create.  Its steps, in order; the resource a successful step   *)
(* acquires; and what the failure branch of a step releases, in the order  *)
(* of the calls in that branch.                                            *)
(***************************************************************************)
Acquires(step) ==
  CASE step = "setrlimit" -> <<>>
    [] step = "calloc" -> <<"u">>
    [] step = "mmap" -> <<"addr">>
    [] step = "xsk_umem__create" -> <<"umem">>
    [] step = "malloc" -> <<"free_addrs">>
    [] step = "pthread_mutex_init" -> <<"lock">>

NextStep(step) ==
  CASE step = "setrlimit" -> "calloc"
    [] step = "calloc" -> "mmap"
    [] step = "mmap" -> "xsk_umem__create"
    [] step = "xsk_umem__create" -> "malloc"
    [] step = "malloc" -> "pthread_mutex_init"
    [] step = "pthread_mutex_init" -> "returned"

\* a failure path that forgets the munmap
UnwindNoMunmap(step) ==
  CASE step = "setrlimit" -> <<>>
    [] step = "calloc" -> <<>>
    [] step = "mmap" -> <<"u">>
    [] step = "xsk_umem__create" -> <<"u">>
    [] step = "malloc" -> <<"umem", "u">>
    [] step = "pthread_mutex_init" -> <<"free_addrs", "umem", "u">>

Unwind(step) ==
  CASE step = "setrlimit" -> <<>>
    [] step = "calloc" -> <<>>
    [] step = "mmap" -> <<"u">>
    [] step = "xsk_umem__create" -> <<"addr", "u">>
    [] step = "malloc" -> <<"umem", "addr", "u">>
    [] step = "pthread_mutex_init" -> <<"free_addrs", "umem", "addr", "u">>

\* what is still held after the releases rs
Release(held, rs) ==
  SelectSeq(held, LAMBDA x : x \notin {rs[i] : i \in 1..Len(rs)})

UmcStart == [pc |-> "setrlimit", acquired |-> <<>>, held |-> <<>>,
             released |-> <<>>, ret |-> "pending"]

\* umem_mgr_create has returned the manager
UmcCreated ==
  LET all == <<"u", "addr", "umem", "free_addrs", "lock">>
  IN [pc |-> "returned", acquired |-> all, held |-> all, released |-> <<>>,
      ret |-> "u"]

RrOff == [n |-> 0, i |-> 0, cycle |-> 0]

\* no history is kept; TraceOn: the history of a run of at most MaxPkts packets
\* n_pkts_rx, n_pkts_tx: the packet counters of struct port (0 from calloc)
TraceOff == [on |-> FALSE, n_rx |-> 0,
             rx |-> [pr \in PortIds \X PortIds |-> <<>>],
             tx |-> [pr \in PortIds \X PortIds |-> <<>>],
             n_pkts_rx |-> [p \in PortIds |-> 0],
             n_pkts_tx |-> [p \in PortIds |-> 0]]

TraceOn == [TraceOff EXCEPT !.on = TRUE]

\* the history after the pair (rx, tx) dequeued d from the RX ring
\* (xdp_fwd2.c: and rx->n_pkts_rx++)
TraceRx(rx, tx, d) ==
  IF trace.on
  THEN [trace EXCEPT !.rx[<<rx, tx>>] = Append(@, d),
                     !.n_pkts_rx[rx] = IF prog = "fwd2" THEN @ + 1 ELSE @]
  ELSE trace

\* the history after the pair (rx, tx) submitted d to the TX ring
\* (xdp_fwd2.c: and tx->n_pkts_tx++)
TraceTx(rx, tx, d) ==
  IF trace.on
  THEN [trace EXCEPT !.tx[<<rx, tx>>] = Append(@, d),
                     !.n_pkts_tx[tx] = IF prog = "fwd2" THEN @ + 1 ELSE @]
  ELSE trace

\* a count that leaves out the TX port
CountPkt_rx_only(rx, tx) ==
  IF trace.on THEN [trace EXCEPT !.n_pkts_rx[rx] = @ + 1] ELSE trace

\* the end of forward_one_packet: rx->n_pkts_rx++; tx->n_pkts_tx++;
CountPkt(rx, tx) ==
  IF trace.on
  THEN [trace EXCEPT !.n_pkts_rx[rx] = @ + 1, !.n_pkts_tx[tx] = @ + 1]
  ELSE trace

\* no packet is followed
PktOff == [at |-> "off", rx |-> <<>>, tx |-> <<>>]

\* no wakeup decision is followed
WakeOff == [pc |-> "off", fq |-> FALSE, tx |-> FALSE, calls |-> {}]

\* main() is not followed: options counted in a run of main()
MaxOpts == 3

LifePortIds == 0..(MaxOpts - 1)

LifeThreadIds == 0..(MaxOpts - 1)

LifeOff == [pc |-> "off", rc |-> 0, quit |-> FALSE, stop_flag |-> FALSE,
            t_quit |-> [t \in LifeThreadIds |-> FALSE],
            umem |-> "none",
            ports |-> [p \in LifePortIds |-> "NULL"],
            threads |-> [t \in LifeThreadIds |-> "none"],
            i |-> 0, failed |-> FALSE, wild |-> FALSE]

\* no fill or drain call is followed
FhOff == [op |-> "off", fill_size |-> 0, inited |-> FALSE, fq |-> <<>>, out |-> {},
          want |-> 0, ret |-> 0, popped |-> <<>>, pre_top |-> 0, pre_fq |-> <<>>,
          pre_free |-> {}, fresh |-> FALSE, drained |-> FALSE, refilled |-> FALSE]

\* main with the built-in sizes is not followed
WireOff == [pc |-> "off", n_ports |-> 0, n_threads |-> 0, free_top |-> 0, i |-> 0,
            t |-> 0, per_thread |-> 0, smashed |-> FALSE, rc |-> 0]

MoreOff ==
  /\ fh = FhOff
  /\ wire = WireOff

AuxOff ==
  /\ pkt = PktOff
  /\ wake = WakeOff
  /\ life = LifeOff
  /\ MoreOff

ExtOff ==
  /\ rr = RrOff
  /\ trace = TraceOff
  /\ AuxOff

SupOff ==
  /\ umc = UmcCreated
  /\ thread_data = <<>>
  /\ main_i = 0
  /\ ExtOff

WIdle == [pc |-> "cq_peek", i |-> 0, desc |-> <<>>, frames |-> <<>>,
          n_cq |-> 0, n_peek |-> 0, ret |-> "rx_peek"]

NoCohort == [rx |-> <<>>, tx |-> <<>>]

EmptyRings ==
  /\ fq = [r \in PortIds |-> <<>>]
  /\ fq_resv = [r \in PortIds |-> 0]
  /\ cq = [r \in PortIds |-> <<>>]
  /\ cq_held = [r \in PortIds |-> 0]
  /\ rxq = [r \in PortIds |-> <<>>]
  /\ rx_held = [r \in PortIds |-> 0]
  /\ txq = [r \in PortIds |-> <<>>]

FwdOff ==
  /\ n_ports = 0
  /\ n_threads = 0
  /\ main_pc = "off"
  /\ ports_done = 0
  /\ cohort = [t \in ThreadIds |-> NoCohort]
  /\ EmptyRings
  /\ wk = [t \in ThreadIds |-> WIdle]
  /\ SupOff

(***************************************************************************)
(* Thread wiring.  xdp_fwd2.c: thread i gets the n_ports / n_threads ports *)
(* from i * n_ports_per_thread on, slot j transmitting on slot             *)
(* (j + 1) % n_ports_per_thread.  Ports are numbered from 0, slots of the  *)
(* sequences from 1.                                                       *)
(***************************************************************************)
\* a wiring that gives every thread the first n_ports_per_thread ports
ThreadWiringNoOffset(i, np, nt) ==
  LET n_ports_per_thread == np \div nt
  IN [rx |-> [j \in 1..n_ports_per_thread |-> j - 1],
      tx |-> [j \in 1..n_ports_per_thread |-> j % n_ports_per_thread]]

ThreadWiring(i, np, nt) ==
  LET n_ports_per_thread == np \div nt
  IN [rx |-> [j \in 1..n_ports_per_thread |-> i * n_ports_per_thread + (j - 1)],
      tx |-> [j \in 1..n_ports_per_thread |->
                i * n_ports_per_thread + (((j - 1) + 1) % n_ports_per_thread)]]

(***************************************************************************)
(* xdp_fwd2_refactored.c: ports_per_thread = n_interfaces / n_threads, 1   *)
(* if that is 0; thread i gets the ports from i * ports_per_thread on, the *)
(* last thread the n_interfaces - i * ports_per_thread that remain.  The   *)
(* forwarding pairs of a thread are its (i, j) with i # j, in loop order;  *)
(* rx and tx list the pairs' ports.                                        *)
(***************************************************************************)
PortsPerThread_refactored(ni, nt) ==
  IF ni \div nt = 0 THEN 1 ELSE ni \div nt

\* thread_data[i].ports, as an index into ports[]
ThreadBase_refactored(i, ni, nt) == i * PortsPerThread_refactored(ni, nt)

\* a u32 as its two 16-bit halves [hi, lo]: x modulo 2^32
U32(x) == [hi |-> (x \div 65536) % 65536, lo |-> x % 65536]

\* thread_data[i].n_ports, a u32
ThreadNPorts_refactored(i, ni, nt) ==
  IF i = nt - 1
  THEN U32(ni - (i * PortsPerThread_refactored(ni, nt)))
  ELSE U32(PortsPerThread_refactored(ni, nt))

\* thread i's ports all exist: ports[base .. base + n_ports) lies in ports[0 .. n)
ThreadPortsExist_refactored(base, n_ports_u32, n) ==
  \/ n_ports_u32 = U32(0)
  \/ n_ports_u32.hi = 0 /\ base + n_ports_u32.lo <= n

ThreadPorts_refactored(i, ni, nt) ==
  [j \in 1..ThreadNPorts_refactored(i, ni, nt).lo |->
     ThreadBase_refactored(i, ni, nt) + (j - 1)]

RECURSIVE PairsFrom(_, _, _)
\* the (i, j), i # j, of the two nested loops from (i, j) on, over n ports
PairsFrom(i, j, n) ==
  IF i >= n THEN <<>>
  ELSE IF j >= n THEN PairsFrom(i + 1, 0, n)
  ELSE IF i # j THEN <<<<i, j>>>> \o PairsFrom(i, j + 1, n)
  ELSE PairsFrom(i, j + 1, n)

ThreadWiring_refactored(i, ni, nt) ==
  LET ports == ThreadPorts_refactored(i, ni, nt)
      pairs == PairsFrom(0, 0, Len(ports))
  IN [rx |-> [k \in 1..Len(pairs) |-> ports[pairs[k][1] + 1]],
      tx |-> [k \in 1..Len(pairs) |-> ports[pairs[k][2] + 1]]]

\* the configurations main() accepts, within the bounds: xdp_fwd2.c needs
\* n_ports, n_threads >= 1 and n_ports % n_threads = 0 (parse_args); the
\* refactored main() has n_interfaces ports and takes any thread count >= 1
\* (the forwarder runs under those where every thread's ports exist)
Configs(p) ==
  IF p = "fwd2"
  THEN {c \in (1..MaxPorts) \X (1..NWorkers) : c[1] % c[2] = 0}
  ELSE {c \in {n_interfaces} \X (1..NWorkers) :
          \A i \in 0..(c[2] - 1) :
            ThreadPortsExist_refactored(ThreadBase_refactored(i, c[1], c[2]),
                                        ThreadNPorts_refactored(i, c[1], c[2]),
                                        c[1])}

Wiring(p, i, np, nt) ==
  IF i >= nt THEN NoCohort
  ELSE IF p = "fwd2" THEN ThreadWiring(i, np, nt)
  ELSE ThreadWiring_refactored(i, np, nt)

\* the ring a port fills from and completes to: its own in xdp_fwd2.c
\* (port.umem_fq, port.umem_cq), the UMEM manager's in the refactored file
\* (u->fq, u->cq)
FqOf(p) == IF prog = "fwd2" THEN p ELSE 0

CqOf(p) == IF prog = "fwd2" THEN p ELSE 0

FqRoom(r) == fill_size - Len(fq[r]) - fq_resv[r]

F_Init ==
  /\ prog \in Progs
  /\ InitFreelist
  /\ HarnessOff
  /\ MutexOff
  /\ \E c \in Configs(prog) :
       /\ n_ports = c[1]
       /\ n_threads = c[2]
       /\ cohort = [t \in ThreadIds |-> Wiring(prog, t, c[1], c[2])]
  /\ main_pc = (IF prog = "fwd2" THEN "ports" ELSE "init_fq")
  /\ ports_done = 0
  /\ EmptyRings
  /\ wk = [t \in ThreadIds |-> WIdle]
  /\ SupOff

\* the ports a thread is pumping
RxPort(t) == cohort[t].rx[wk[t].i + 1]

TxPort(t) == cohort[t].tx[wk[t].i + 1]

\* thread t's loop condition reads thread_data[t].quit (xdp_fwd2.c) or
\* *stop_flag (xdp_fwd2_refactored.c)
QuitFlag(t) == IF prog = "fwd2" THEN life.t_quit[t] ELSE life.stop_flag

\* thread t has been started and has not returned from thread_func
Running(t) ==
  /\ main_pc = "run"
  /\ t < n_threads
  /\ life.threads[t] \notin {"exited", "joined"}

(***************************************************************************)
(* xdp_fwd2.c, main: port_init of the next port.  The socket is created    *)
(* (xsk_socket__create_shared may fail).  The initial fill pops up to      *)
(* fill_size frames and reserves as many slots of the port's Fill ring; no *)
(* frame, or a short reservation, fails the port (the popped frames are    *)
(* not pushed back).  A failed port makes main return -1.                  *)
(***************************************************************************)
F_port_init ==
  /\ prog = "fwd2"
  /\ main_pc = "ports"
  /\ ports_done < n_ports
  /\ \E status \in {0, 1} :
       LET p == ports_done
           need == IF fill_size > TmpSize THEN TmpSize ELSE fill_size
           r == umem_alloc(free_addrs, free_top, need)
       IN IF status # 0
          THEN /\ main_pc' = "exit"
               /\ UNCHANGED <<free_top, fq, ports_done>>
          ELSE /\ free_top' = r.free_top
               /\ IF r.got = 0 \/ FqRoom(p) < r.got
                  THEN /\ main_pc' = "exit"
                       /\ UNCHANGED <<fq, ports_done>>
                  ELSE /\ fq' = [fq EXCEPT ![p] = @ \o r.out]
                       /\ ports_done' = ports_done + 1
                       /\ main_pc' = IF ports_done + 1 = n_ports
                                     THEN "wire" ELSE "ports"
  /\ UNCHANGED <<prog, free_addrs, heap_smashed, harness_vars, mutex_vars, cfg_vars, sup_vars,
                 fq_resv, cq, cq_held, rxq, rx_held, txq, wk>>

(***************************************************************************)
(* The wiring and launch loops of main() for the configurations that the   *)
(* forwarder runs under: every thread has its cohort (the variable        *)
(* cohort) and all threads are started.                                    *)
(***************************************************************************)
Launch ==
  /\ main_pc = "wire"
  /\ main_pc' = "run"
  /\ UNCHANGED <<prog, fl_vars, harness_vars, mutex_vars, cfg_vars, sup_vars,
                 ports_done, ring_vars, wk>>

\* thread_func's next slot: i = (i + 1) & (n_ports_rx - 1)
NextIndex(i, n) == BitAnd(i + 1, n - 1)

NextSlot(t) == NextIndex(wk[t].i, Len(cohort[t].rx))

(***************************************************************************)
(* thread_func's loop test (!t->quit), then port_pump_once, step 1: peek   *)
(* up to comp_size (64 if that is 0) entries of the TX port's Completion   *)
(* ring.                                                                   *)
(***************************************************************************)
F_cq_peek(t) ==
  /\ prog = "fwd2" /\ Running(t)
  /\ wk[t].pc = "cq_peek"
  /\ ~QuitFlag(t)
  /\ LET want == IF comp_size = 0 THEN CqBatch ELSE comp_size
         n_cq == Min(want, Len(cq[CqOf(TxPort(t))]))
     IN wk' = [wk EXCEPT ![t].n_cq = n_cq, ![t].n_peek = n_cq, ![t].ret = "rx_peek",
                         ![t].pc = IF n_cq > 0 THEN "cq_free" ELSE "rx_peek"]
  /\ UNCHANGED <<prog, fl_vars, harness_vars, mutex_vars, cfg_vars, sup_vars, main_pc,
                 ports_done, ring_vars>>

\* umem_free_one of the next peeked completion address
F_cq_free(t) ==
  /\ prog = "fwd2" /\ Running(t)
  /\ wk[t].pc = "cq_free"
  /\ LET c == CqOf(TxPort(t))
         r == umem_free_one(free_addrs, free_top, Head(cq[c]))
     IN /\ free_addrs' = r.free_addrs
        /\ free_top' = r.free_top
        /\ heap_smashed' = (heap_smashed \/ r.smashed)
        /\ cq' = [cq EXCEPT ![c] = Tail(@)]
        /\ cq_held' = [cq_held EXCEPT ![c] = @ + 1]
  /\ wk' = [wk EXCEPT ![t].n_cq = @ - 1,
                      ![t].pc = IF wk[t].n_cq = 1 THEN "cq_release" ELSE "cq_free"]
  /\ UNCHANGED <<prog, harness_vars, mutex_vars, cfg_vars, sup_vars, main_pc, ports_done,
                 fq, fq_resv, rxq, rx_held, txq>>

\* xsk_ring_cons__release of the peeked entries
F_cq_release(t) ==
  /\ prog = "fwd2" /\ Running(t)
  /\ wk[t].pc = "cq_release"
  /\ cq_held' = [cq_held EXCEPT ![CqOf(TxPort(t))] = @ - wk[t].n_peek]
  /\ wk' = [wk EXCEPT ![t].pc = wk[t].ret, ![t].n_peek = 0, ![t].ret = "rx_peek"]
  /\ UNCHANGED <<prog, fl_vars, harness_vars, mutex_vars, cfg_vars, sup_vars, main_pc,
                 ports_done, fq, fq_resv, cq, rxq, rx_held, txq>>

\* packets the kernel delivers in a run whose history is kept
MaxPkts == 3

\* xsk_ring_cons__rx_desc(&rx->rxq, rpos): the descriptor at the consumer index
\* a read of the newest descriptor instead
rx_desc_newest(q) == q[Len(q)]

rx_desc(q) == Head(q)

\* td->addr = addr; td->len = len
\* a TX descriptor with the length left at 0
tx_desc_no_len(addr, len) == [addr |-> addr, len |-> 0]

tx_desc(addr, len) == [addr |-> addr, len |-> len]

(***************************************************************************)
(* Step 2: peek one RX descriptor; none: return 0 and go on with the next  *)
(* slot.  Else read (addr, len) and release the RX slot.                   *)
(***************************************************************************)
F_rx_peek(t) ==
  /\ prog = "fwd2" /\ Running(t)
  /\ wk[t].pc = "rx_peek"
  /\ LET rx == RxPort(t)
     IN IF rxq[rx] = <<>>
        THEN /\ wk' = [wk EXCEPT ![t].pc = "cq_peek", ![t].i = NextSlot(t)]
             /\ UNCHANGED <<rxq, trace>>
        ELSE /\ wk' = [wk EXCEPT ![t].pc = "tx", ![t].desc = <<rx_desc(rxq[rx])>>]
             /\ rxq' = [rxq EXCEPT ![rx] = Tail(@)]
             /\ trace' = TraceRx(rx, TxPort(t), Head(rxq[rx]))
  /\ UNCHANGED <<prog, fl_vars, harness_vars, mutex_vars, cfg_vars, sup_core, rr, aux_vars,
                 main_pc, ports_done, fq, fq_resv, cq, cq_held, rx_held, txq>>

(***************************************************************************)
(* Step 4: reserve one TX slot (the loop spins until there is one), write  *)
(* (addr, len), submit.                                                    *)
(***************************************************************************)
F_tx(t) ==
  /\ prog = "fwd2" /\ Running(t)
  /\ wk[t].pc = "tx"
  /\ Len(txq[TxPort(t)]) < tx_size
  /\ LET td == tx_desc(wk[t].desc[1].addr, wk[t].desc[1].len)
     IN /\ txq' = [txq EXCEPT ![TxPort(t)] = Append(@, td)]
        /\ trace' = TraceTx(RxPort(t), TxPort(t), td)
  /\ wk' = [wk EXCEPT ![t].pc = "alloc", ![t].desc = <<>>]
  /\ UNCHANGED <<prog, fl_vars, harness_vars, mutex_vars, cfg_vars, sup_core, rr, aux_vars,
                 main_pc, ports_done, fq, fq_resv, cq, cq_held, rxq, rx_held>>

(***************************************************************************)
(* Step 5: umem_alloc of one fresh frame; while there is none, peek up to  *)
(* 64 completions of the TX port, free them, release, and try again.       *)
(***************************************************************************)
F_alloc(t) ==
  /\ prog = "fwd2" /\ Running(t)
  /\ wk[t].pc = "alloc"
  /\ LET r == umem_alloc(free_addrs, free_top, 1)
         got2 == Min(CqBatch, Len(cq[CqOf(TxPort(t))]))
     IN IF r.got = 1
        THEN /\ free_top' = r.free_top
             /\ wk' = [wk EXCEPT ![t].pc = "fq_reserve", ![t].frames = r.out]
        ELSE /\ got2 > 0
             /\ wk' = [wk EXCEPT ![t].pc = "cq_free", ![t].n_cq = got2,
                                 ![t].n_peek = got2, ![t].ret = "alloc"]
             /\ UNCHANGED free_top
  /\ UNCHANGED <<prog, free_addrs, heap_smashed, harness_vars, mutex_vars, cfg_vars, sup_vars,
                 main_pc, ports_done, ring_vars>>

\* reserve one slot of the RX port's Fill ring (the loop spins until there is one)
F_fq_reserve(t) ==
  /\ prog = "fwd2" /\ Running(t)
  /\ wk[t].pc = "fq_reserve"
  /\ FqRoom(FqOf(RxPort(t))) >= 1
  /\ fq_resv' = [fq_resv EXCEPT ![FqOf(RxPort(t))] = @ + 1]
  /\ wk' = [wk EXCEPT ![t].pc = "fq_submit"]
  /\ UNCHANGED <<prog, fl_vars, harness_vars, mutex_vars, cfg_vars, sup_vars, main_pc,
                 ports_done, fq, cq, cq_held, rxq, rx_held, txq>>

\* write the fresh address, submit; return 1 and go on with the next slot
F_fq_submit(t) ==
  /\ prog = "fwd2" /\ Running(t)
  /\ wk[t].pc = "fq_submit"
  /\ fq' = [fq EXCEPT ![FqOf(RxPort(t))] = Append(@, wk[t].frames[1])]
  /\ fq_resv' = [fq_resv EXCEPT ![FqOf(RxPort(t))] = @ - 1]
  /\ wk' = [wk EXCEPT ![t].pc = "cq_peek", ![t].frames = <<>>, ![t].i = NextSlot(t)]
  /\ UNCHANGED <<prog, fl_vars, harness_vars, mutex_vars, cfg_vars, sup_vars, main_pc,
                 ports_done, cq, cq_held, rxq, rx_held, txq>>

(***************************************************************************)
(* xdp_fwd2_refactored.c, main: umem_mgr_init_fq, before any port exists:  *)
(* umem_mgr_fill_fq of fill_size frames (64 if that is 0).  Nothing        *)
(* filled: main returns 1.                                                 *)
(***************************************************************************)
R_init_fq ==
  /\ prog = "refactored"
  /\ main_pc = "init_fq"
  /\ LET want == IF fill_size = 0 THEN CqBatch ELSE fill_size
         r == umem_alloc_refactored(free_addrs, free_top, want)
         reserved == IF FqRoom(0) >= r.got THEN r.got ELSE 0
     IN IF r.got = 0
        THEN /\ main_pc' = "exit"
             /\ UNCHANGED <<fl_vars, fq, ports_done>>
        ELSE IF reserved # r.got
        THEN LET f == umem_free(free_addrs, r.free_top, r.got, r.out)
             IN /\ free_addrs' = f.free_addrs
                /\ free_top' = f.free_top
                /\ main_pc' = "exit"
                /\ UNCHANGED <<heap_smashed, fq, ports_done>>
        ELSE /\ free_top' = r.free_top
             /\ fq' = [fq EXCEPT ![0] = @ \o r.out]
             /\ main_pc' = "ports"
             /\ UNCHANGED ports_done
             /\ UNCHANGED <<free_addrs, heap_smashed>>
  /\ UNCHANGED <<prog, harness_vars, mutex_vars, cfg_vars, sup_vars,
                 fq_resv, cq, cq_held, rxq, rx_held, txq, wk>>

\* main: port_init of the next port: the socket is created on the UMEM
\* manager's Fill and Completion rings; a failed port ends main
R_port_init ==
  /\ prog = "refactored"
  /\ main_pc = "ports"
  /\ ports_done < n_ports
  /\ \E status \in {0, 1} :
       IF status # 0
       THEN /\ main_pc' = "exit"
            /\ UNCHANGED ports_done
       ELSE /\ ports_done' = ports_done + 1
            /\ main_pc' = IF ports_done + 1 = n_ports THEN "wire" ELSE "ports"
  /\ UNCHANGED <<prog, fl_vars, harness_vars, mutex_vars, cfg_vars, sup_vars,
                 ring_vars, wk>>

\* thread_func's next (i, j) pair; after the last one the outer loop starts over
NextPair(t) == IF wk[t].i + 1 < Len(cohort[t].rx) THEN wk[t].i + 1 ELSE 0

\* thread_func of a thread with no pair to forward between: the outer loop
\* finds nothing forwarded and sleeps
R_idle(t) ==
  /\ prog = "refactored" /\ Running(t)
  /\ Len(cohort[t].rx) = 0
  /\ ~QuitFlag(t)
  /\ UNCHANGED vars

\* forward_one_packet, umem_mgr_process_cq: peek up to 64 completions; before
\* the first pair of a pass, the loop test (!*t->stop_flag)
R_cq_peek(t) ==
  /\ prog = "refactored" /\ Running(t)
  /\ Len(cohort[t].rx) > 0
  /\ wk[t].pc = "cq_peek"
  /\ wk[t].i = 0 => ~QuitFlag(t)
  /\ LET n == Min(CqBatch, Len(cq[CqOf(TxPort(t))]))
     IN wk' = [wk EXCEPT ![t].n_cq = n, ![t].n_peek = n, ![t].ret = "rx_peek",
                         ![t].pc = IF n > 0 THEN "cq_free" ELSE "rx_peek"]
  /\ UNCHANGED <<prog, fl_vars, harness_vars, mutex_vars, cfg_vars, sup_vars, main_pc,
                 ports_done, ring_vars>>

\* umem_mgr_process_cq: umem_free_one of the next peeked address
R_cq_free(t) ==
  /\ prog = "refactored" /\ Running(t)
  /\ wk[t].pc = "cq_free"
  /\ LET c == CqOf(TxPort(t))
         r == umem_free_one_refactored(free_addrs, free_top, Head(cq[c]))
     IN /\ free_addrs' = r.free_addrs
        /\ free_top' = r.free_top
        /\ cq' = [cq EXCEPT ![c] = Tail(@)]
        /\ cq_held' = [cq_held EXCEPT ![c] = @ + 1]
  /\ wk' = [wk EXCEPT ![t].n_cq = @ - 1,
                      ![t].pc = IF wk[t].n_cq = 1 THEN "cq_release" ELSE "cq_free"]
  /\ UNCHANGED <<prog, heap_smashed, harness_vars, mutex_vars, cfg_vars, sup_vars, main_pc,
                 ports_done, fq, fq_resv, rxq, rx_held, txq>>

\* umem_mgr_process_cq: xsk_ring_cons__release
R_cq_release(t) ==
  /\ prog = "refactored" /\ Running(t)
  /\ wk[t].pc = "cq_release"
  /\ cq_held' = [cq_held EXCEPT ![CqOf(TxPort(t))] = @ - wk[t].n_peek]
  /\ wk' = [wk EXCEPT ![t].pc = wk[t].ret, ![t].n_peek = 0, ![t].ret = "rx_peek"]
  /\ UNCHANGED <<prog, fl_vars, harness_vars, mutex_vars, cfg_vars, sup_vars, main_pc,
                 ports_done, fq, fq_resv, cq, rxq, rx_held, txq>>

\* peek one RX descriptor; none: return 0.  Else read (addr, len); the RX
\* slot is released only after the TX submit
R_rx_peek(t) ==
  /\ prog = "refactored" /\ Running(t)
  /\ wk[t].pc = "rx_peek"
  /\ LET rx == RxPort(t)
     IN IF rxq[rx] = <<>>
        THEN /\ wk' = [wk EXCEPT ![t].pc = "cq_peek", ![t].i = NextPair(t)]
             /\ UNCHANGED <<rxq, rx_held, trace>>
        ELSE /\ wk' = [wk EXCEPT ![t].pc = "tx", ![t].desc = <<rx_desc(rxq[rx])>>]
             /\ rxq' = [rxq EXCEPT ![rx] = Tail(@)]
             /\ rx_held' = [rx_held EXCEPT ![rx] = @ + 1]
             /\ trace' = TraceRx(rx, TxPort(t), Head(rxq[rx]))
  /\ UNCHANGED <<prog, fl_vars, harness_vars, mutex_vars, cfg_vars, sup_core, rr, aux_vars,
                 main_pc, ports_done, fq, fq_resv, cq, cq_held, txq>>

\* reserve one TX slot (spinning until there is one), write (addr, len),
\* submit TX, release RX
R_tx(t) ==
  /\ prog = "refactored" /\ Running(t)
  /\ wk[t].pc = "tx"
  /\ Len(txq[TxPort(t)]) < tx_size
  /\ LET td == tx_desc(wk[t].desc[1].addr, wk[t].desc[1].len)
     IN /\ txq' = [txq EXCEPT ![TxPort(t)] = Append(@, td)]
        /\ trace' = TraceTx(RxPort(t), TxPort(t), td)
  /\ rx_held' = [rx_held EXCEPT ![RxPort(t)] = @ - 1]
  /\ wk' = [wk EXCEPT ![t].pc = "replenish", ![t].desc = <<>>]
  /\ UNCHANGED <<prog, fl_vars, harness_vars, mutex_vars, cfg_vars, sup_core, rr, aux_vars,
                 main_pc, ports_done, fq, fq_resv, cq, cq_held, rxq>>

(***************************************************************************)
(* Replenish: if more than half of the Fill ring is free,                  *)
(* umem_mgr_fill_fq(u, fq_free): pop up to fq_free frames; none: return.   *)
(***************************************************************************)
R_replenish(t) ==
  /\ prog = "refactored" /\ Running(t)
  /\ wk[t].pc = "replenish"
  /\ LET fq_free == FqRoom(FqOf(RxPort(t)))
         r == umem_alloc_refactored(free_addrs, free_top, fq_free)
     IN IF fq_free > fill_size \div 2 /\ r.got > 0
        THEN /\ free_top' = r.free_top
             /\ wk' = [wk EXCEPT ![t].pc = "fq_reserve", ![t].frames = r.out]
             /\ UNCHANGED trace
        ELSE /\ wk' = [wk EXCEPT ![t].pc = "cq_peek", ![t].i = NextPair(t)]
             /\ trace' = CountPkt(RxPort(t), TxPort(t))
             /\ UNCHANGED free_top
  /\ UNCHANGED <<prog, free_addrs, heap_smashed, harness_vars, mutex_vars, cfg_vars, sup_core,
                 rr, aux_vars, main_pc, ports_done, ring_vars>>

\* umem_mgr_fill_fq: reserve got slots, all or none; none: push the frames
\* back with umem_free and return
R_fq_reserve(t) ==
  /\ prog = "refactored" /\ Running(t)
  /\ wk[t].pc = "fq_reserve"
  /\ LET got == Len(wk[t].frames)
         reserved == IF FqRoom(FqOf(RxPort(t))) >= got THEN got ELSE 0
     IN IF reserved # got
        THEN LET f == umem_free(free_addrs, free_top, got, wk[t].frames)
             IN /\ free_addrs' = f.free_addrs
                /\ free_top' = f.free_top
                /\ wk' = [wk EXCEPT ![t].pc = "cq_peek", ![t].frames = <<>>,
                                    ![t].i = NextPair(t)]
                /\ trace' = CountPkt(RxPort(t), TxPort(t))
                /\ UNCHANGED fq_resv
        ELSE /\ fq_resv' = [fq_resv EXCEPT ![FqOf(RxPort(t))] = @ + got]
             /\ wk' = [wk EXCEPT ![t].pc = "fq_submit"]
             /\ UNCHANGED <<free_addrs, free_top, trace>>
  /\ UNCHANGED <<prog, heap_smashed, harness_vars, mutex_vars, cfg_vars, sup_core, rr,
                 aux_vars, main_pc, ports_done, fq, cq, cq_held, rxq, rx_held, txq>>

\* umem_mgr_fill_fq: write the addresses, submit; forward_one_packet returns 1
R_fq_submit(t) ==
  /\ prog = "refactored" /\ Running(t)
  /\ wk[t].pc = "fq_submit"
  /\ fq' = [fq EXCEPT ![FqOf(RxPort(t))] = @ \o wk[t].frames]
  /\ fq_resv' = [fq_resv EXCEPT ![FqOf(RxPort(t))] = @ - Len(wk[t].frames)]
  /\ wk' = [wk EXCEPT ![t].pc = "cq_peek", ![t].frames = <<>>, ![t].i = NextPair(t)]
  /\ trace' = CountPkt(RxPort(t), TxPort(t))
  /\ UNCHANGED <<prog, fl_vars, harness_vars, mutex_vars, cfg_vars, sup_core, rr, aux_vars,
                 main_pc, ports_done, cq, cq_held, rxq, rx_held, txq>>

(***************************************************************************)
(* The kernel.  RX: a packet arrives on port p; the kernel takes the next  *)
(* address of the port's Fill ring and puts a descriptor into the RX ring: *)
(* the address of the packet data in that frame, and the length.  TX: the  *)
(* kernel sends the next descriptor of port p's TX ring and puts its       *)
(* address, as it was submitted, into the Completion ring.                 *)
(***************************************************************************)
K_rx(p) ==
  /\ main_pc = "run"
  /\ p < n_ports
  /\ fq[FqOf(p)] # <<>>
  /\ Len(rxq[p]) + rx_held[p] < rx_size
  /\ \E off \in RxOffsets, len \in Lens :
       rxq' = [rxq EXCEPT ![p] =
                 Append(@, [addr |-> FrameAddr(FrameOf(Head(fq[FqOf(p)]))) + off,
                            len |-> len])]
  /\ fq' = [fq EXCEPT ![FqOf(p)] = Tail(@)]
  /\ trace.on => trace.n_rx < MaxPkts
  /\ trace' = IF trace.on THEN [trace EXCEPT !.n_rx = @ + 1] ELSE trace
  /\ UNCHANGED <<prog, fl_vars, harness_vars, mutex_vars, cfg_vars, sup_core, rr, aux_vars,
                 main_pc, ports_done, fq_resv, cq, cq_held, rx_held, txq, wk>>

K_tx(p) ==
  /\ main_pc = "run"
  /\ p < n_ports
  /\ txq[p] # <<>>
  /\ Len(cq[CqOf(p)]) + cq_held[CqOf(p)] < comp_size
  /\ cq' = [cq EXCEPT ![CqOf(p)] = Append(@, Head(txq[p]).addr)]
  /\ txq' = [txq EXCEPT ![p] = Tail(@)]
  /\ UNCHANGED <<prog, fl_vars, harness_vars, mutex_vars, cfg_vars, sup_vars, main_pc,
                 ports_done, fq, fq_resv, cq_held, rxq, rx_held, wk>>

Next ==
  \/ F_port_init
  \/ R_init_fq
  \/ R_port_init
  \/ Launch
  \/ \E t \in ThreadIds :
       \/ F_cq_peek(t) \/ F_cq_free(t) \/ F_cq_release(t)
       \/ F_rx_peek(t) \/ F_tx(t) \/ F_alloc(t)
       \/ F_fq_reserve(t) \/ F_fq_submit(t)
       \/ R_idle(t)
       \/ R_cq_peek(t) \/ R_cq_free(t) \/ R_cq_release(t)
       \/ R_rx_peek(t) \/ R_tx(t) \/ R_replenish(t)
       \/ R_fq_reserve(t) \/ R_fq_submit(t)
  \/ \E p \in PortIds : K_rx(p) \/ K_tx(p)

(***************************************************************************)
(* The freelist under concurrent callers.  Each worker calls umem_alloc    *)
(* and the free functions on the addresses it holds; the C statements are  *)
(* taken one memory access at a time: pthread_mutex_lock, the load of      *)
(* free_top, the store of free_top and of the array slot, and              *)
(* pthread_mutex_unlock are steps of their own, so that two callers inside *)
(* the functions at once would interleave their loads and stores.          *)
(***************************************************************************)
\* a lock that lets every caller in
mutex_never_blocks(l) == TRUE

\* pthread_mutex_lock(&u->lock) returns when no one holds the lock
pthread_mutex_lock(l) == l = 0

\* s without its element at position k
RemoveAt(s, k) == [j \in 1..(Len(s) - 1) |-> IF j < k THEN s[j] ELSE s[j + 1]]

M_Init ==
  /\ prog \in Progs
  /\ InitFreelist
  /\ HarnessOff
  /\ MutexOff
  /\ FwdOff

\* umem_alloc: pthread_mutex_lock, then got = min(want, free_top)
M_alloc_lock(w) ==
  /\ mw[w].pc = "idle"
  /\ pthread_mutex_lock(lock)
  /\ \E want \in 1..MaxWant :
       LET got == IF free_top >= want THEN want ELSE free_top
       IN mw' = [mw EXCEPT ![w].pc = IF got > 0 THEN "alloc_load" ELSE "unlock",
                           ![w].got = got, ![w].i = 0, ![w].out = <<>>]
  /\ lock' = w
  /\ UNCHANGED <<prog, fl_vars, harness_vars, fwd_vars>>

\* out[i] = free_addrs[--free_top]: the load of free_top
M_alloc_load(w) ==
  /\ mw[w].pc = "alloc_load"
  /\ mw' = [mw EXCEPT ![w].pc = "alloc_store", ![w].reg = free_top]
  /\ UNCHANGED <<prog, fl_vars, harness_vars, lock, fwd_vars>>

\* out[i] = free_addrs[--free_top]: the store of free_top, the load of the slot
M_alloc_store(w) ==
  /\ mw[w].pc = "alloc_store"
  /\ mw[w].reg >= 1
  /\ free_top' = mw[w].reg - 1
  /\ mw' = [mw EXCEPT ![w].out = Append(@, free_addrs[mw[w].reg - 1]),
                      ![w].i = @ + 1,
                      ![w].pc = IF mw[w].i + 1 < mw[w].got THEN "alloc_load" ELSE "unlock"]
  /\ UNCHANGED <<prog, free_addrs, heap_smashed, harness_vars, lock, fwd_vars>>

\* umem_free_one (both files) of one held address, or umem_free
\* (xdp_fwd2_refactored.c) of every held address: pthread_mutex_lock
M_free_lock(w) ==
  /\ mw[w].pc = "idle"
  /\ Len(mw[w].held) > 0
  /\ pthread_mutex_lock(lock)
  /\ \/ \E k \in 1..Len(mw[w].held) :
          mw' = [mw EXCEPT ![w].pc = "free_load", ![w].i = 0,
                           ![w].args = <<mw[w].held[k]>>,
                           ![w].held = RemoveAt(@, k)]
     \/ /\ prog = "refactored"
        /\ mw' = [mw EXCEPT ![w].pc = "free_load", ![w].i = 0,
                            ![w].args = mw[w].held, ![w].held = <<>>]
  /\ lock' = w
  /\ UNCHANGED <<prog, fl_vars, harness_vars, fwd_vars>>

\* free_addrs[free_top++] = addr: the load of free_top; umem_free of
\* xdp_fwd2_refactored.c stores only if free_top < n_frames
M_free_load(w) ==
  /\ mw[w].pc = "free_load"
  /\ IF prog = "refactored" /\ ~(free_top < n_frames)
     THEN mw' = [mw EXCEPT ![w].i = @ + 1,
                           ![w].pc = IF mw[w].i + 1 < Len(mw[w].args)
                                     THEN "free_load" ELSE "unlock"]
     ELSE mw' = [mw EXCEPT ![w].pc = "free_store", ![w].reg = free_top]
  /\ UNCHANGED <<prog, fl_vars, harness_vars, lock, fwd_vars>>

\* free_addrs[free_top++] = addr: the store of the slot and of free_top
M_free_store(w) ==
  /\ mw[w].pc = "free_store"
  /\ IF mw[w].reg < n_frames
     THEN /\ free_addrs' = [free_addrs EXCEPT ![mw[w].reg] = mw[w].args[mw[w].i + 1]]
          /\ UNCHANGED heap_smashed
     ELSE /\ heap_smashed' = TRUE
          /\ UNCHANGED free_addrs
  /\ free_top' = mw[w].reg + 1
  /\ mw' = [mw EXCEPT ![w].i = @ + 1,
                      ![w].pc = IF mw[w].i + 1 < Len(mw[w].args)
                                THEN "free_load" ELSE "unlock"]
  /\ UNCHANGED <<prog, harness_vars, lock, fwd_vars>>

\* pthread_mutex_unlock, and the return: the caller now holds what it popped
M_unlock(w) ==
  /\ mw[w].pc = "unlock"
  /\ lock' = 0
  /\ mw' = [mw EXCEPT ![w] = [MIdle EXCEPT !.held = mw[w].held \o mw[w].out]]
  /\ UNCHANGED <<prog, fl_vars, harness_vars, fwd_vars>>

M_Next ==
  \E w \in Workers :
    \/ M_alloc_lock(w)
    \/ M_alloc_load(w)
    \/ M_alloc_store(w)
    \/ M_free_lock(w)
    \/ M_free_load(w)
    \/ M_free_store(w)
    \/ M_unlock(w)

(***************************************************************************)
(* The freelist on its own: the calls and what the harness records.        *)
(***************************************************************************)
\* what the harness keeps of the call before an alloc: a free, with the stack
\* it found
Remember(c) == IF c.op = "free" THEN c ELSE NoCall

FL_Init ==
  /\ prog \in Progs
  /\ InitFreelist
  /\ HarnessOff
  /\ MutexOff
  /\ FwdOff

FL_alloc ==
  /\ ~heap_smashed
  /\ \E want \in 0..(n_frames + 1) :
       LET r == Alloc(prog, free_addrs, free_top, want)
       IN /\ free_top' = r.free_top
          /\ free_addrs' = free_addrs
          /\ call' = [op |-> "alloc", want |-> want, out |-> r.out, got |-> r.got,
                      pre_top |-> free_top, pre_addrs |-> free_addrs]
  /\ prev_call' = Remember(call)
  /\ UNCHANGED <<prog, heap_smashed, mutex_vars, fwd_vars>>

FL_free_one ==
  /\ ~heap_smashed
  /\ \E a \in TestAddrs :
       LET r == FreeOne(prog, free_addrs, free_top, a)
       IN /\ free_top' = r.free_top
          /\ free_addrs' = r.free_addrs
          /\ heap_smashed' = r.smashed
          /\ call' = [op |-> "free", addrs |-> <<a>>,
                      pre_top |-> free_top, pre_addrs |-> free_addrs]
  /\ prev_call' = NoCall
  /\ UNCHANGED <<prog, mutex_vars, fwd_vars>>

FL_free ==
  /\ ~heap_smashed
  /\ prog = "refactored"
  /\ \E s \in FreeBatches :
       LET r == umem_free(free_addrs, free_top, Len(s), s)
       IN /\ free_top' = r.free_top
          /\ free_addrs' = r.free_addrs
          /\ heap_smashed' = r.smashed
          /\ call' = [op |-> "free", addrs |-> s,
                      pre_top |-> free_top, pre_addrs |-> free_addrs]
  /\ prev_call' = NoCall
  /\ UNCHANGED <<prog, mutex_vars, fwd_vars>>

FL_Next == FL_alloc \/ FL_free_one \/ FL_free

(***************************************************************************)
(* The supervisor: main() from umem_mgr_create to the launch of the        *)
(* threads, for every configuration the argument parsing accepts.          *)
(***************************************************************************)
\* xdp_fwd2.c
MAX_PORTS == 64

MAX_THREADS == 64

MAX_PORTS_PER_THREAD == 16

\* xdp_fwd2_refactored.c
MAX_INTERFACES == 8

MAX_THREADS_refactored == 8

\* parse_args (xdp_fwd2.c): at most MAX_PORTS -i and MAX_THREADS -c, at
\* least one of each, and n_ports % n_threads = 0.  main of the refactored
\* file: n_interfaces ports; n_threads = atoi(argv[1]), 1 if that is 0, and
\* MAX_THREADS if it is more
MainConfigs(p) ==
  IF p = "fwd2"
  THEN {c \in (1..MAX_PORTS) \X (1..MAX_THREADS) : c[1] % c[2] = 0}
  ELSE {n_interfaces} \X (1..MAX_THREADS_refactored)

S_Init ==
  /\ prog \in Progs
  /\ free_addrs = <<>>
  /\ free_top = 0
  /\ heap_smashed = FALSE
  /\ HarnessOff
  /\ MutexOff
  /\ \E c \in MainConfigs(prog) :
       /\ n_ports = c[1]
       /\ n_threads = c[2]
  /\ cohort = [t \in ThreadIds |-> NoCohort]
  /\ main_pc = "create"
  /\ ports_done = 0
  /\ EmptyRings
  /\ wk = [t \in ThreadIds |-> WIdle]
  /\ umc = UmcStart
  /\ thread_data = <<>>
  /\ main_i = 0
  /\ ExtOff

(***************************************************************************)
(* One step of umem_mgr_create: the call succeeds and the function goes on *)
(* (the malloc step also fills the freelist; after the last step it        *)
(* returns u), or the call fails and the function releases what the        *)
(* failure branch names and returns NULL, on which main returns.           *)
(***************************************************************************)
CreateStep(step) ==
  /\ main_pc = "create"
  /\ umc.pc = step
  /\ \E ok \in BOOLEAN :
       IF ok
       THEN /\ umc' = [umc EXCEPT !.pc = NextStep(step),
                                  !.acquired = @ \o Acquires(step),
                                  !.held = @ \o Acquires(step),
                                  !.ret = IF NextStep(step) = "returned"
                                          THEN "u" ELSE @]
            /\ IF step = "malloc"
               THEN free_addrs' = InitFreeAddrs /\ free_top' = n_frames
               ELSE UNCHANGED <<free_addrs, free_top>>
            /\ main_pc' = IF NextStep(step) # "returned" THEN "create"
                          ELSE IF prog = "fwd2" THEN "ports" ELSE "init_fq"
       ELSE /\ umc' = [umc EXCEPT !.pc = "returned",
                                  !.held = Release(@, Unwind(step)),
                                  !.released = @ \o Unwind(step),
                                  !.ret = "NULL"]
            /\ main_pc' = "exit"
            /\ UNCHANGED <<free_addrs, free_top>>
  /\ UNCHANGED <<prog, heap_smashed, harness_vars, mutex_vars, cfg_vars,
                 ports_done, ring_vars, wk, thread_data, main_i, ext_vars>>

umem_mgr_create_setrlimit == CreateStep("setrlimit")

umem_mgr_create_calloc == CreateStep("calloc")

umem_mgr_create_mmap == CreateStep("mmap")

umem_mgr_create_xsk_umem == CreateStep("xsk_umem__create")

umem_mgr_create_malloc == CreateStep("malloc")

umem_mgr_create_mutex_init == CreateStep("pthread_mutex_init")

(***************************************************************************)
(* xdp_fwd2.c, the wiring loop.  thread_data[i] has two arrays of          *)
(* MAX_PORTS_PER_THREAD port pointers (<<>> is NULL, <<p>> is ports[p]);   *)
(* a store at an index past an array is recorded in smashed.               *)
(***************************************************************************)
ThreadDataZero ==
  [ports_rx |-> [j \in 1..MAX_PORTS_PER_THREAD |-> <<>>],
   ports_tx |-> [j \in 1..MAX_PORTS_PER_THREAD |-> <<>>],
   n_ports_rx |-> 0,
   smashed |-> FALSE]

RECURSIVE WireLoop(_, _, _)
\* for (j = 0; j < n_ports_per_thread; j++) ports_rx[j] = ..., ports_tx[j] = ...
WireLoop(td, w, j) ==
  IF j >= Len(w.rx) THEN td
  ELSE IF j < MAX_PORTS_PER_THREAD
  THEN WireLoop([td EXCEPT !.ports_rx[j + 1] = <<w.rx[j + 1]>>,
                           !.ports_tx[j + 1] = <<w.tx[j + 1]>>], w, j + 1)
  ELSE WireLoop([td EXCEPT !.smashed = TRUE], w, j + 1)

WireThread(i, np, nt) ==
  LET w == ThreadWiring(i, np, nt)
  IN [WireLoop(ThreadDataZero, w, 0) EXCEPT !.n_ports_rx = np \div nt]

S_wire ==
  /\ prog = "fwd2"
  /\ main_pc = "wire"
  /\ Len(thread_data) < n_threads
  /\ thread_data' = Append(thread_data, WireThread(Len(thread_data), n_ports, n_threads))
  /\ UNCHANGED <<prog, fl_vars, harness_vars, mutex_vars, cfg_vars, main_pc,
                 ports_done, ring_vars, wk, umc, main_i, ext_vars>>

\* the launch loop: pthread_create of the next thread; a failure makes main
\* return -1
S_launch ==
  /\ prog = "fwd2"
  /\ main_pc = "wire"
  /\ Len(thread_data) = n_threads
  /\ \E status \in {0, 1} :
       IF status # 0
       THEN main_pc' = "exit" /\ UNCHANGED main_i
       ELSE /\ main_i' = main_i + 1
            /\ main_pc' = IF main_i + 1 = n_threads THEN "run" ELSE "wire"
  /\ UNCHANGED <<prog, fl_vars, harness_vars, mutex_vars, cfg_vars,
                 ports_done, ring_vars, wk, umc, thread_data, ext_vars>>

(***************************************************************************)
(* xdp_fwd2_refactored.c, the loop that wires and starts the threads:      *)
(* thread_data[i].ports = &ports[i * ports_per_thread] (kept as the index) *)
(* and n_ports, a u32; then pthread_create, whose failure ends the loop.   *)
(***************************************************************************)
S_wire_refactored ==
  /\ prog = "refactored"
  /\ main_pc = "wire"
  /\ Len(thread_data) < n_threads
  /\ LET i == Len(thread_data)
     IN thread_data' = Append(thread_data,
                              [ports |-> ThreadBase_refactored(i, n_ports, n_threads),
                               n_ports |-> ThreadNPorts_refactored(i, n_ports, n_threads)])
  /\ \E status \in {0, 1} :
       IF status # 0
       THEN main_pc' = "exit" /\ UNCHANGED main_i
       ELSE /\ main_i' = main_i + 1
            /\ main_pc' = IF main_i + 1 = n_threads THEN "run" ELSE "wire"
  /\ UNCHANGED <<prog, fl_vars, harness_vars, mutex_vars, cfg_vars,
                 ports_done, ring_vars, wk, umc, ext_vars>>

S_Next ==
  \/ umem_mgr_create_setrlimit
  \/ umem_mgr_create_calloc
  \/ umem_mgr_create_mmap
  \/ umem_mgr_create_xsk_umem
  \/ umem_mgr_create_malloc
  \/ umem_mgr_create_mutex_init
  \/ F_port_init
  \/ R_init_fq
  \/ R_port_init
  \/ S_wire
  \/ S_launch
  \/ S_wire_refactored

(***************************************************************************)
(* main() as the owner of resources, from the arguments to the return:     *)
(* the UMEM manager (life.umem), the port pointers (life.ports), the       *)
(* threads (life.threads), the quit flags and, once main has returned      *)
(* (life.pc = "exit"), the exit code (life.rc).                            *)
(* Each library call either succeeds or fails.  ports[] and threads[] of   *)
(* xdp_fwd2.c are static (zeroed); those of xdp_fwd2_refactored.c are      *)
(* locals of main and start uninitialised ("uninit").  A call on an        *)
(* uninitialised pointer or thread id is recorded in life.wild.            *)
(***************************************************************************)
\* the option counts given on the command line: -i and -c of xdp_fwd2.c, from
\* none to MaxOpts each; xdp_fwd2_refactored.c has its n_interfaces ports and
\* takes atoi(argv[1]) as n_threads
RawConfigs(p) ==
  IF p = "fwd2" THEN (0..MaxOpts) \X (0..MaxOpts)
  ELSE {n_interfaces} \X (0..MaxOpts)

LifeStart(p) ==
  [LifeOff EXCEPT !.pc = "parse",
                  !.ports = [q \in LifePortIds |-> IF p = "fwd2" THEN "NULL" ELSE "uninit"],
                  !.threads = [t \in LifeThreadIds |-> IF p = "fwd2" THEN "none" ELSE "uninit"]]

\* main() in its stats loop: every port built, every thread running
LifeRun(np, nt) ==
  [LifeOff EXCEPT !.pc = "run", !.umem = "live",
                  !.ports = [q \in LifePortIds |-> IF q < np THEN "live" ELSE "NULL"],
                  !.threads = [t \in LifeThreadIds |-> IF t < nt THEN "running" ELSE "none"]]

L_Init ==
  /\ prog \in Progs
  /\ InitFreelist
  /\ HarnessOff
  /\ MutexOff
  /\ \E c \in RawConfigs(prog) :
       /\ n_ports = c[1]
       /\ n_threads = c[2]
  /\ cohort = [t \in ThreadIds |-> NoCohort]
  /\ main_pc = "off"
  /\ ports_done = 0
  /\ EmptyRings
  /\ wk = [t \in ThreadIds |-> WIdle]
  /\ umc = UmcCreated
  /\ thread_data = <<>>
  /\ main_i = 0
  /\ rr = RrOff
  /\ trace = TraceOff
  /\ pkt = PktOff
  /\ wake = WakeOff
  /\ life = LifeStart(prog)
  /\ MoreOff

LifeStep(l) ==
  /\ life' = l
  /\ UNCHANGED <<prog, fl_vars, harness_vars, mutex_vars, cfg_vars, main_pc,
                 ports_done, ring_vars, wk, sup_core, rr, trace, pkt, wake, more_vars>>

\* return rc from main: the process ends
Return(l, rc) == [l EXCEPT !.pc = "exit", !.rc = rc]

\* parse_args (xdp_fwd2.c): no port, no thread, or n_ports % n_threads # 0
\* gives -1 and main returns -1.  xdp_fwd2_refactored.c: n_threads =
\* atoi(argv[1]), 1 if that is 0, MAX_THREADS if it is more; nothing is
\* rejected
L_parse ==
  /\ life.pc = "parse"
  /\ IF prog = "fwd2"
     THEN /\ LifeStep(IF n_ports = 0 \/ n_threads = 0 \/ n_ports % n_threads # 0
                      THEN Return(life, -1)
                      ELSE [life EXCEPT !.pc = "create"])
     ELSE /\ life' = [life EXCEPT !.pc = "create"]
          /\ n_threads' = (IF n_threads = 0 THEN 1
                           ELSE IF n_threads > MAX_THREADS_refactored
                           THEN MAX_THREADS_refactored ELSE n_threads)
          /\ UNCHANGED <<prog, fl_vars, harness_vars, mutex_vars, n_ports, cohort,
                         main_pc, ports_done, ring_vars, wk, sup_core, rr, trace,
                         pkt, wake, more_vars>>

\* umem_mgr_create; NULL: return -1 (xdp_fwd2.c), return 1 (refactored)
L_create ==
  /\ life.pc = "create"
  /\ \E ok \in BOOLEAN :
       LifeStep(IF ok
                THEN [life EXCEPT !.umem = "live",
                                  !.pc = IF prog = "fwd2" THEN "ports" ELSE "init_fq"]
                ELSE Return([life EXCEPT !.failed = TRUE],
                            IF prog = "fwd2" THEN -1 ELSE 1))

\* xdp_fwd2_refactored.c: umem_mgr_init_fq; on failure umem_mgr_destroy and
\* return 1
L_init_fq ==
  /\ prog = "refactored"
  /\ life.pc = "init_fq"
  /\ \E ok \in BOOLEAN :
       LifeStep(IF ok THEN [life EXCEPT !.pc = "ports"]
                ELSE Return([life EXCEPT !.umem = "destroyed", !.failed = TRUE], 1))

\* ports[i] = port_init(...); NULL: return -1 (xdp_fwd2.c), goto cleanup
\* (refactored)
L_port_init ==
  /\ life.pc = "ports"
  /\ \E ok \in BOOLEAN :
       LifeStep(IF ok
                THEN [life EXCEPT !.ports[life.i] = "live",
                                  !.i = IF life.i + 1 = n_ports THEN 0 ELSE life.i + 1,
                                  !.pc = IF life.i + 1 = n_ports THEN "launch" ELSE "ports"]
                ELSE IF prog = "fwd2"
                THEN Return([life EXCEPT !.ports[life.i] = "NULL", !.failed = TRUE], -1)
                ELSE [life EXCEPT !.ports[life.i] = "NULL", !.failed = TRUE,
                                  !.i = 0, !.pc = "free"])

\* pthread_create of thread i.  Failure: return -1 (xdp_fwd2.c); stop_flag = 1
\* and break (refactored), after which the stats loop is not entered
L_launch ==
  /\ life.pc = "launch"
  /\ \E ok \in BOOLEAN :
       LifeStep(IF ok
                THEN [life EXCEPT !.threads[life.i] = "running",
                                  !.i = IF life.i + 1 = n_threads THEN 0 ELSE life.i + 1,
                                  !.pc = IF life.i + 1 = n_threads THEN "run" ELSE "launch"]
                ELSE IF prog = "fwd2"
                THEN Return([life EXCEPT !.failed = TRUE], -1)
                ELSE [life EXCEPT !.stop_flag = TRUE, !.failed = TRUE,
                                  !.i = 0, !.pc = "join"])

\* SIGINT or SIGTERM with the handler installed: after the launch in
\* xdp_fwd2.c (quit = 1), before it in xdp_fwd2_refactored.c (stop_flag = 1)
L_signal ==
  /\ main_pc \in {"off", "run"}
  /\ IF prog = "fwd2"
     THEN /\ life.pc = "run"
          /\ ~life.quit
          /\ LifeStep([life EXCEPT !.quit = TRUE])
     ELSE /\ life.pc \in {"launch", "run"}
          /\ ~life.stop_flag
          /\ LifeStep([life EXCEPT !.stop_flag = TRUE])

\* the stats loop ends: while (!quit), while (!stop_flag)
L_stats_end ==
  /\ life.pc = "run"
  /\ IF prog = "fwd2" THEN life.quit ELSE life.stop_flag
  /\ LifeStep([life EXCEPT !.i = 0, !.pc = IF prog = "fwd2" THEN "stop" ELSE "join"])

\* xdp_fwd2.c: thread_data[i].quit = 1, for every thread
L_set_quit ==
  /\ prog = "fwd2"
  /\ life.pc = "stop"
  /\ LifeStep([life EXCEPT !.t_quit[life.i] = TRUE,
                           !.i = IF life.i + 1 = n_threads THEN 0 ELSE life.i + 1,
                           !.pc = IF life.i + 1 = n_threads THEN "join" ELSE "stop"])

\* thread t is at its loop test; a thread whose pump is not followed is
\* between two cycles
AtLoopTest(t) ==
  t \in ThreadIds =>
    /\ wk[t].pc = "cq_peek"
    /\ prog = "refactored" => wk[t].i = 0

\* thread_func: the loop test finds the flag set and the thread returns
W_exit(t) ==
  /\ t < n_threads
  /\ life.threads[t] = "running"
  /\ QuitFlag(t)
  /\ AtLoopTest(t)
  /\ LifeStep([life EXCEPT !.threads[t] = "exited"])

\* pthread_join(thread) of a thread that was started returns when it has ended
\* a join that does not wait for the thread
pthread_join_no_wait(st) == TRUE

pthread_join(st) == st # "running"

\* pthread_join(threads[i], NULL), for every i < n_threads; threads[i] of a
\* thread that was never created is an uninitialised pthread_t
L_join ==
  /\ life.pc = "join"
  /\ pthread_join(life.threads[life.i])
  /\ LifeStep([life EXCEPT !.threads[life.i] = IF @ = "exited" THEN "joined" ELSE @,
                           !.wild = @ \/ (life.threads[life.i] = "uninit"),
                           !.i = IF life.i + 1 = n_threads THEN 0 ELSE life.i + 1,
                           !.pc = IF life.i + 1 = n_threads THEN "free" ELSE "join"])

\* port_free(ports[i]), for every port index: xdp_fwd2.c calls it on every
\* pointer (port_free returns on NULL), xdp_fwd2_refactored.c tests the
\* pointer first.  An uninitialised pointer is NULL or is not
L_port_free ==
  /\ life.pc = "free"
  /\ \E null \in BOOLEAN :
       /\ life.ports[life.i] # "uninit" => null = (life.ports[life.i] = "NULL")
       /\ LifeStep([life EXCEPT !.ports[life.i] = IF @ = "live" THEN "freed" ELSE @,
                                !.wild = @ \/ (life.ports[life.i] = "uninit" /\ ~null),
                                !.i = IF life.i + 1 = n_ports THEN 0 ELSE life.i + 1,
                                !.pc = IF life.i + 1 = n_ports THEN "destroy" ELSE "free"])

\* umem_mgr_destroy, then return 0
L_umem_mgr_destroy ==
  /\ life.pc = "destroy"
  /\ LifeStep(Return([life EXCEPT !.umem = "destroyed"], 0))

L_Next ==
  \/ L_parse
  \/ L_create
  \/ L_init_fq
  \/ L_port_init
  \/ L_launch
  \/ L_signal
  \/ L_stats_end
  \/ L_set_quit
  \/ \E t \in LifeThreadIds : W_exit(t)
  \/ L_join
  \/ L_port_free
  \/ L_umem_mgr_destroy

(***************************************************************************)
(* The forwarder under a signal: the rings and threads of Spec, with main  *)
(* in its stats loop, the handler, main's loop over the quit flags, and    *)
(* the return of a thread whose loop test finds its flag set.  Runs of at  *)
(* most MaxPkts packets.                                                   *)
(***************************************************************************)
Q_Init ==
  /\ prog \in Progs
  /\ InitFreelist
  /\ HarnessOff
  /\ MutexOff
  /\ \E c \in Configs(prog) :
       /\ n_ports = c[1]
       /\ n_threads = c[2]
       /\ cohort = [t \in ThreadIds |-> Wiring(prog, t, c[1], c[2])]
       /\ life = LifeRun(c[1], c[2])
  /\ main_pc = (IF prog = "fwd2" THEN "ports" ELSE "init_fq")
  /\ ports_done = 0
  /\ EmptyRings
  /\ wk = [t \in ThreadIds |-> WIdle]
  /\ umc = UmcCreated
  /\ thread_data = <<>>
  /\ main_i = 0
  /\ rr = RrOff
  /\ trace = TraceOn
  /\ pkt = PktOff
  /\ wake = WakeOff
  /\ MoreOff

\* a step of thread t
WorkerStep(t) ==
  \/ F_cq_peek(t) \/ F_cq_free(t) \/ F_cq_release(t)
  \/ F_rx_peek(t) \/ F_tx(t) \/ F_alloc(t)
  \/ F_fq_reserve(t) \/ F_fq_submit(t)
  \/ R_cq_peek(t) \/ R_cq_free(t) \/ R_cq_release(t)
  \/ R_rx_peek(t) \/ R_tx(t) \/ R_replenish(t)
  \/ R_fq_reserve(t) \/ R_fq_submit(t)
  \/ W_exit(t)

Q_Next ==
  \/ Next
  \/ L_signal
  \/ L_stats_end
  \/ L_set_quit
  \/ \E t \in ThreadIds : W_exit(t)

(***************************************************************************)
(* thread_func (xdp_fwd2.c) on its own: the loop over a cohort of n ports. *)
(* One step is one iteration: port_pump_once on slot i, then the loop's    *)
(* increment.  What the pump does to the rings does not matter here.       *)
(***************************************************************************)
\* iterations followed
MaxCycles == 32

T_Init ==
  /\ prog = "fwd2"
  /\ InitFreelist
  /\ HarnessOff
  /\ MutexOff
  /\ n_ports = 0
  /\ n_threads = 0
  /\ main_pc = "off"
  /\ ports_done = 0
  /\ cohort = [t \in ThreadIds |-> NoCohort]
  /\ EmptyRings
  /\ wk = [t \in ThreadIds |-> WIdle]
  /\ umc = UmcCreated
  /\ thread_data = <<>>
  /\ main_i = 0
  /\ \E n \in 1..MAX_PORTS_PER_THREAD : rr = [n |-> n, i |-> 0, cycle |-> 0]
  /\ trace = TraceOff
  /\ AuxOff

T_pump ==
  /\ rr.n > 0
  /\ rr.cycle < MaxCycles
  /\ rr' = [rr EXCEPT !.i = NextIndex(rr.i, rr.n), !.cycle = @ + 1]
  /\ UNCHANGED <<prog, fl_vars, harness_vars, mutex_vars, cfg_vars, main_pc,
                 ports_done, ring_vars, wk, umc, thread_data, main_i, trace, aux_vars>>

T_Next == T_pump

(***************************************************************************)
(* The forwarder with the history of its descriptors kept, for runs of at  *)
(* most MaxPkts packets.                                                   *)
(***************************************************************************)
P_Init ==
  /\ prog \in Progs
  /\ InitFreelist
  /\ HarnessOff
  /\ MutexOff
  /\ \E c \in Configs(prog) :
       /\ n_ports = c[1]
       /\ n_threads = c[2]
       /\ cohort = [t \in ThreadIds |-> Wiring(prog, t, c[1], c[2])]
  /\ main_pc = (IF prog = "fwd2" THEN "ports" ELSE "init_fq")
  /\ ports_done = 0
  /\ EmptyRings
  /\ wk = [t \in ThreadIds |-> WIdle]
  /\ umc = UmcCreated
  /\ thread_data = <<>>
  /\ main_i = 0
  /\ rr = RrOff
  /\ trace = TraceOn
  /\ AuxOff

Spec == F_Init /\ [][Next]_vars

SpecFreelist == FL_Init /\ [][FL_Next]_vars

SpecMutex == M_Init /\ [][M_Next]_vars

SpecMain == S_Init /\ [][S_Next]_vars

SpecThread == T_Init /\ [][T_Next]_vars

SpecPkt == P_Init /\ [][Next]_vars

(***************************************************************************)
(* The packet edit of one pump cycle.  A frame starts with the Ethernet    *)
(* header: ether_dhost (bytes 1..6), ether_shost (bytes 7..12).            *)
(* port_pump_once (xdp_fwd2.c) calls swap_mac_addresses on the frame       *)
(* between the RX release and the TX reserve; forward_one_packet           *)
(* (xdp_fwd2_refactored.c) writes nothing to the frame.                    *)
(***************************************************************************)
Bytes == {17, 34}

MacAddrs == [1..6 -> Bytes]

\* tmp = *src; *src = *dst; *dst = tmp
\* the source copied over the destination without the temporary
swap_mac_addresses_no_tmp(data) ==
  [k \in 1..12 |-> IF k <= 6 THEN data[k + 6] ELSE data[k]]

swap_mac_addresses(data) ==
  LET tmp == SubSeq(data, 7, 12)
      src == SubSeq(data, 1, 6)
      dst == tmp
  IN dst \o src

\* what the pump cycle of program p does to the frame before the TX submit
PacketEdit(p, data) ==
  IF p = "fwd2" THEN swap_mac_addresses(data) ELSE data

X_Init ==
  /\ prog \in Progs
  /\ InitFreelist
  /\ HarnessOff
  /\ MutexOff
  /\ n_ports = 0
  /\ n_threads = 0
  /\ main_pc = "off"
  /\ ports_done = 0
  /\ cohort = [t \in ThreadIds |-> NoCohort]
  /\ EmptyRings
  /\ wk = [t \in ThreadIds |-> WIdle]
  /\ umc = UmcCreated
  /\ thread_data = <<>>
  /\ main_i = 0
  /\ rr = RrOff
  /\ trace = TraceOff
  /\ \E dhost \in MacAddrs, shost \in MacAddrs :
       pkt = [at |-> "rx", rx |-> dhost \o shost, tx |-> <<>>]
  /\ wake = WakeOff
  /\ life = LifeOff
  /\ MoreOff

\* one pump cycle on the packet: RX peek to TX submit
X_forward ==
  /\ pkt.at = "rx"
  /\ pkt' = [pkt EXCEPT !.at = "tx", !.tx = PacketEdit(prog, pkt.rx)]
  /\ UNCHANGED <<prog, fl_vars, harness_vars, mutex_vars, cfg_vars, main_pc,
                 ports_done, ring_vars, wk, sup_core, rr, trace, wake, life, more_vars>>

X_Next == X_forward

SpecSwap == X_Init /\ [][X_Next]_vars

(***************************************************************************)
(* The wakeup decisions of one pump cycle.  Every poll and sendto of       *)
(* port_pump_once (xdp_fwd2.c) and forward_one_packet                      *)
(* (xdp_fwd2_refactored.c) sits behind a test of                           *)
(* xsk_ring_prod__needs_wakeup on one ring: the Fill ring (wake.fq) or the *)
(* TX ring (wake.tx).  The kernel sets and clears the two flags as it      *)
(* likes; what the rings hold is abstracted into the outcome of each peek, *)
(* reserve and alloc.  A syscall is recorded with the value the ring's     *)
(* flag has when it is issued; the test and the syscall are one step.      *)
(***************************************************************************)
\* a test that always asks for the wakeup
needs_wakeup_always(flag) == TRUE

\* xsk_ring_prod__needs_wakeup(r): *r->flags & XDP_RING_NEED_WAKEUP
xsk_ring_prod__needs_wakeup(flag) == flag

\* if (xsk_ring_prod__needs_wakeup(ring)) syscall(...): the calls made so far
Kick(sys, ring, at) ==
  IF xsk_ring_prod__needs_wakeup(wake[ring])
  THEN wake.calls \union {[sys |-> sys, ring |-> ring, at |-> at, flag |-> wake[ring]]}
  ELSE wake.calls

\* the syscall that kicks the TX ring: sendto in xdp_fwd2.c, poll(POLLOUT) in
\* xdp_fwd2_refactored.c
TxKick == IF prog = "fwd2" THEN "sendto" ELSE "poll"

WK_Init ==
  /\ prog \in Progs
  /\ InitFreelist
  /\ HarnessOff
  /\ MutexOff
  /\ n_ports = 0
  /\ n_threads = 0
  /\ main_pc = "off"
  /\ ports_done = 0
  /\ cohort = [t \in ThreadIds |-> NoCohort]
  /\ EmptyRings
  /\ wk = [t \in ThreadIds |-> WIdle]
  /\ umc = UmcCreated
  /\ thread_data = <<>>
  /\ main_i = 0
  /\ rr = RrOff
  /\ trace = TraceOff
  /\ pkt = PktOff
  /\ wake = [pc |-> "rx_peek", fq |-> FALSE, tx |-> FALSE, calls |-> {}]
  /\ life = LifeOff
  /\ MoreOff

WakeStep(pc, calls) ==
  /\ wake' = [wake EXCEPT !.pc = pc, !.calls = calls]
  /\ UNCHANGED <<prog, fl_vars, harness_vars, mutex_vars, cfg_vars, main_pc,
                 ports_done, ring_vars, wk, sup_core, rr, trace, pkt, life, more_vars>>

\* the kernel sets or clears the need-wakeup flag of a ring
K_need_wakeup ==
  /\ wake.pc # "off"
  /\ \E ring \in {"fq", "tx"} :
       wake' = [wake EXCEPT ![ring] = ~@]
  /\ UNCHANGED <<prog, fl_vars, harness_vars, mutex_vars, cfg_vars, main_pc,
                 ports_done, ring_vars, wk, sup_core, rr, trace, pkt, life, more_vars>>

\* the RX peek: nothing there, poll the Fill ring if it asks and return
WK_rx_peek ==
  /\ wake.pc = "rx_peek"
  /\ \E n \in {0, 1} :
       IF n = 0 THEN WakeStep("rx_peek", Kick("poll", "fq", "rx_peek"))
       ELSE WakeStep("tx_reserve", wake.calls)

\* while (reserve(txq) != 1) kick the TX ring if it asks
WK_tx_reserve ==
  /\ wake.pc = "tx_reserve"
  /\ \E r \in {0, 1} :
       IF r # 1 THEN WakeStep("tx_reserve", Kick(TxKick, "tx", "tx_reserve"))
       ELSE WakeStep("tx_submit", wake.calls)

\* submit(txq), then kick the TX ring if it asks; xdp_fwd2_refactored.c goes on
\* to umem_mgr_fill_fq, which makes no syscall, and returns
WK_tx_submit ==
  /\ wake.pc = "tx_submit"
  /\ WakeStep(IF prog = "fwd2" THEN "alloc" ELSE "rx_peek",
              Kick(TxKick, "tx", "tx_submit"))

\* xdp_fwd2.c: while (umem_alloc(1) != 1) poll the Fill ring if it asks
WK_alloc ==
  /\ prog = "fwd2"
  /\ wake.pc = "alloc"
  /\ \E got \in {0, 1} :
       IF got # 1 THEN WakeStep("alloc", Kick("poll", "fq", "alloc"))
       ELSE WakeStep("fq_reserve", wake.calls)

\* xdp_fwd2.c: while (reserve(umem_fq) != 1) poll the Fill ring if it asks
WK_fq_reserve ==
  /\ prog = "fwd2"
  /\ wake.pc = "fq_reserve"
  /\ \E r \in {0, 1} :
       IF r # 1 THEN WakeStep("fq_reserve", Kick("poll", "fq", "fq_reserve"))
       ELSE WakeStep("rx_peek", wake.calls)

WK_Next ==
  \/ K_need_wakeup
  \/ WK_rx_peek
  \/ WK_tx_reserve
  \/ WK_tx_submit
  \/ WK_alloc
  \/ WK_fq_reserve

SpecWake == WK_Init /\ [][WK_Next]_vars

(***************************************************************************)
(* The fill functions on their own: the initial fill (umem_mgr_init_fq of  *)
(* xdp_fwd2_refactored.c, the fill of port_init in xdp_fwd2.c) and the     *)
(* replenishment (umem_mgr_fill_fq; step 5 of port_pump_once) on one Fill  *)
(* ring of fh.fill_size slots (fh.fq), called in any state of the freelist *)
(* and of the ring.  The kernel takes posted frames (fh.out holds the      *)
(* frames that are neither free nor posted) and a completed frame comes    *)
(* back through the program's umem_free_one.  fh.op .. fh.pre_fq describe  *)
(* the last call.                                                          *)
(***************************************************************************)
\* xsk_ring_prod__reserve(r, nb): nb slots if the ring has them free, else 0
xsk_ring_prod__reserve(room, nb) == IF room < nb THEN 0 ELSE nb

\* umem_mgr_fill_fq that keeps the frames of a short reservation
umem_mgr_fill_fq_no_return(fa, top, q, fs, want) ==
  LET r == umem_alloc_refactored(fa, top, want)
      reserved == xsk_ring_prod__reserve(fs - Len(q), r.got)
  IN [free_addrs |-> fa, free_top |-> r.free_top,
      fq |-> IF reserved = r.got THEN q \o r.out ELSE q,
      ret |-> reserved, popped |-> r.out]

\* umem_mgr_fill_fq(u, want) (xdp_fwd2_refactored.c): nothing wanted or
\* nothing popped returns 0; a reservation that is not the popped count
\* pushes all popped frames back and returns 0 (reserved is never negative);
\* else the frames are written and submitted and their count is returned
umem_mgr_fill_fq(fa, top, q, fs, want) ==
  LET r == umem_alloc_refactored(fa, top, want)
      reserved == xsk_ring_prod__reserve(fs - Len(q), r.got)
  IN IF want = 0 \/ r.got = 0
     THEN [free_addrs |-> fa, free_top |-> top, fq |-> q, ret |-> 0, popped |-> <<>>]
     ELSE IF reserved # r.got
     THEN LET f == umem_free(fa, r.free_top, r.got, r.out)
          IN [free_addrs |-> f.free_addrs, free_top |-> f.free_top, fq |-> q,
              ret |-> 0, popped |-> r.out]
     ELSE [free_addrs |-> fa, free_top |-> r.free_top, fq |-> q \o r.out,
           ret |-> r.got, popped |-> r.out]

\* an initial fill that asks for one frame less than the ring holds
umem_mgr_init_fq_keep_one(fa, top, q, fs) ==
  LET f == umem_mgr_fill_fq(fa, top, q, fs, fs - 1)
  IN [f EXCEPT !.ret = IF f.ret <= 0 THEN -1 ELSE 0]

\* umem_mgr_init_fq(u): want = fill_size, 64 if that is 0; filled <= 0 is -1
umem_mgr_init_fq(fa, top, q, fs) ==
  LET want == IF fs = 0 THEN CqBatch ELSE fs
      f == umem_mgr_fill_fq(fa, top, q, fs, want)
  IN [f EXCEPT !.ret = IF f.ret <= 0 THEN -1 ELSE 0]

\* port_init (xdp_fwd2.c), the initial fill: need = fill_size, at most the
\* 4096 of tmp[]; no frame popped, or a reservation that is not the popped
\* count: port_free(p) and NULL (ret -1 here; the popped frames stay in
\* tmp[]); else the frames are written and submitted (ret 0)
port_init_fill(fa, top, q, fs) ==
  LET need == IF fs > TmpSize THEN TmpSize ELSE fs
      r == umem_alloc(fa, top, need)
      reserved == xsk_ring_prod__reserve(fs - Len(q), r.got)
  IN IF need = 0
     THEN [free_addrs |-> fa, free_top |-> top, fq |-> q, ret |-> 0, popped |-> <<>>]
     ELSE IF r.got = 0 \/ reserved # r.got
     THEN [free_addrs |-> fa, free_top |-> r.free_top, fq |-> q,
           ret |-> -1, popped |-> r.out]
     ELSE [free_addrs |-> fa, free_top |-> r.free_top, fq |-> q \o r.out,
           ret |-> 0, popped |-> r.out]

\* the program's initial fill
InitFill(p, fa, top, q, fs) ==
  IF p = "fwd2" THEN port_init_fill(fa, top, q, fs)
  ELSE umem_mgr_init_fq(fa, top, q, fs)

\* the elements of a sequence
Range(q) == {q[k] : k \in 1..Len(q)}

\* Fill ring sizes tried: the rings' size, and one as large as the UMEM
FillSizes == {RingSize, n_frames}

\* the call record of a fill function's result r
FillCall(op, want, r, inited) ==
  [fh EXCEPT !.op = op, !.want = want, !.ret = r.ret, !.popped = r.popped,
             !.fq = r.fq, !.inited = inited,
             !.pre_top = free_top, !.pre_fq = fh.fq,
             !.pre_free = Range(Live(free_addrs, free_top)),
             !.refilled = @ \/ (op = "refill" /\ r.fq # fh.fq)]

\* Init: frames 0 .. k-1 are free, the next j are posted on the Fill ring and
\* the rest are with the kernel; the initial fill has been made (inited) or is
\* still to come
FI_Init ==
  /\ prog \in Progs
  /\ free_addrs = InitFreeAddrs
  /\ heap_smashed = FALSE
  /\ HarnessOff
  /\ MutexOff
  /\ n_ports = 0
  /\ n_threads = 0
  /\ main_pc = "off"
  /\ ports_done = 0
  /\ cohort = [t \in ThreadIds |-> NoCohort]
  /\ EmptyRings
  /\ wk = [t \in ThreadIds |-> WIdle]
  /\ umc = UmcCreated
  /\ thread_data = <<>>
  /\ main_i = 0
  /\ rr = RrOff
  /\ trace = TraceOff
  /\ pkt = PktOff
  /\ wake = WakeOff
  /\ life = LifeOff
  /\ wire = WireOff
  /\ \E fs \in FillSizes, k \in 0..n_frames, inited \in BOOLEAN :
       \E j \in 0..Min(fs, n_frames - k) :
         /\ free_top = k
         /\ fh = [op |-> "start", fill_size |-> fs, inited |-> inited,
                  fq |-> [i \in 1..j |-> FrameAddr(k + i - 1)],
                  out |-> {FrameAddr(i) : i \in (k + j)..(n_frames - 1)},
                  want |-> 0, ret |-> 0, popped |-> <<>>,
                  pre_top |-> k, pre_fq |-> <<>>, pre_free |-> {},
                  fresh |-> ~inited /\ k = n_frames,
                  drained |-> FALSE, refilled |-> FALSE]

\* everything the fill harness leaves alone
FillFrame ==
  UNCHANGED <<prog, harness_vars, mutex_vars, cfg_vars, main_pc, ports_done,
              ring_vars, wk, sup_core, rr, trace, pkt, wake, life, wire>>

\* the run goes on: a failed initial fill ends the program, as does a store
\* past the freelist
FillGoesOn == ~(fh.op = "init" /\ fh.ret # 0) /\ ~heap_smashed

\* the initial fill, once (main of xdp_fwd2_refactored.c; port_init)
FI_init ==
  /\ fh.op = "start" /\ ~fh.inited
  /\ LET r == InitFill(prog, free_addrs, free_top, fh.fq, fh.fill_size)
     IN /\ free_addrs' = r.free_addrs
        /\ free_top' = r.free_top
        /\ fh' = FillCall("init", fh.fill_size, r, r.ret = 0)
  /\ UNCHANGED heap_smashed
  /\ FillFrame

\* umem_mgr_init_fq once more: fq_initialized, return 0
FI_init_again ==
  /\ prog = "refactored" /\ fh.inited /\ FillGoesOn
  /\ fh' = [fh EXCEPT !.op = "init_again", !.want = 0, !.ret = 0,
                      !.popped = <<>>, !.pre_top = free_top, !.pre_fq = fh.fq,
                      !.pre_free = Range(Live(free_addrs, free_top))]
  /\ UNCHANGED fl_vars
  /\ FillFrame

\* umem_mgr_fill_fq(u, target) of xdp_fwd2_refactored.c
FI_refill(target) ==
  /\ prog = "refactored" /\ fh.inited /\ FillGoesOn
  /\ LET r == umem_mgr_fill_fq(free_addrs, free_top, fh.fq, fh.fill_size, target)
     IN /\ free_addrs' = r.free_addrs
        /\ free_top' = r.free_top
        /\ fh' = FillCall("refill", target, r, fh.inited)
  /\ UNCHANGED heap_smashed
  /\ FillFrame

\* step 5 of port_pump_once: one frame popped (the loop spins while there is
\* none) and posted (the loop spins while the ring has no slot)
FI_replenish ==
  /\ prog = "fwd2" /\ fh.inited /\ FillGoesOn
  /\ free_top > 0
  /\ xsk_ring_prod__reserve(fh.fill_size - Len(fh.fq), 1) = 1
  /\ LET a == umem_alloc(free_addrs, free_top, 1)
     IN /\ free_top' = a.free_top
        /\ fh' = FillCall("refill", 1,
                          [fq |-> fh.fq \o a.out, ret |-> 1, popped |-> a.out],
                          fh.inited)
  /\ UNCHANGED <<free_addrs, heap_smashed>>
  /\ FillFrame

\* the kernel takes the oldest posted frame for a packet
FI_kernel ==
  /\ FillGoesOn
  /\ fh.fq # <<>>
  /\ fh' = [fh EXCEPT !.op = "kernel", !.fq = Tail(@), !.out = @ \cup {Head(fh.fq)}]
  /\ UNCHANGED fl_vars
  /\ FillFrame

\* a frame comes back on the Completion ring and is drained to the freelist
FI_complete ==
  /\ FillGoesOn
  /\ \E a \in fh.out :
       LET f == FreeOne(prog, free_addrs, free_top, a)
       IN /\ free_addrs' = f.free_addrs
          /\ free_top' = f.free_top
          /\ heap_smashed' = f.smashed
          /\ fh' = [fh EXCEPT !.op = "complete", !.out = @ \ {a}, !.drained = TRUE]
  /\ FillFrame

FI_Next ==
  \/ FI_init
  \/ FI_init_again
  \/ \E target \in 0..n_frames : FI_refill(target)
  \/ FI_replenish
  \/ FI_kernel
  \/ FI_complete

SpecFill == FI_Init /\ [][FI_Next]_vars

(***************************************************************************)
(* The completion drain on its own: step 1 of port_pump_once and the drain *)
(* inside its alloc loop (xdp_fwd2.c), umem_mgr_process_cq                 *)
(* (xdp_fwd2_refactored.c), each as one call on a UMEM of DrainFrames      *)
(* frames whose Completion ring (fh.cq) can hold more entries than the     *)
(* batch of 64.  fh.out holds the frames that are neither free nor         *)
(* completed.  fh.op .. fh.pre_addrs describe the last call.               *)
(***************************************************************************)
\* frames of the UMEM of the drain, and the size of its Completion ring
DrainFrames == CqBatch + 2

DrainAddrs == [i \in 0..(DrainFrames - 1) |-> FrameAddr(i)]

\* calls and kernel steps followed after the initial state
MaxCalls == 3

\* a peek that hands out every entry of the ring
xsk_ring_cons__peek_all(avail, nb) == avail

\* xsk_ring_cons__peek(r, nb, &idx): the entries available, at most nb
xsk_ring_cons__peek(avail, nb) == IF avail > nb THEN nb ELSE avail

\* for (i = 0; i < n; i++) umem_free_one(u, *xsk_ring_cons__comp_addr(cq, pos + i))
\* on a freelist of nf entries: entry i of the batch is stored at free_top + i
\* while that is below nf; past it xdp_fwd2.c stores outside the array and
\* counts on, xdp_fwd2_refactored.c drops the address
DrainLoop(p, nf, fa, top, q, n) ==
  LET pushed == Min(n, nf - top)
  IN [free_addrs |-> [i \in DOMAIN fa |->
                        IF top <= i /\ i < top + pushed THEN q[i - top + 1] ELSE fa[i]],
      free_top |-> IF p = "fwd2" THEN top + n ELSE top + pushed,
      smashed |-> p = "fwd2" /\ n > pushed]

\* one drain: peek up to want entries, free each, release them if there are any
Drain(p, nf, fa, top, q, want) ==
  LET n == xsk_ring_cons__peek(Len(q), want)
      r == DrainLoop(p, nf, fa, top, q, n)
  IN [free_addrs |-> r.free_addrs, free_top |-> r.free_top, smashed |-> r.smashed,
      cq |-> IF n # 0 THEN SubSeq(q, n + 1, Len(q)) ELSE q, n |-> n]

\* Init: frames 0 .. k-1 are free, the next m are on the Completion ring in
\* the order the kernel completed them, the rest are in flight
D_Init ==
  /\ prog \in Progs
  /\ free_addrs = DrainAddrs
  /\ heap_smashed = FALSE
  /\ HarnessOff
  /\ MutexOff
  /\ n_ports = 0
  /\ n_threads = 0
  /\ main_pc = "off"
  /\ ports_done = 0
  /\ cohort = [t \in ThreadIds |-> NoCohort]
  /\ EmptyRings
  /\ wk = [t \in ThreadIds |-> WIdle]
  /\ umc = UmcCreated
  /\ thread_data = <<>>
  /\ main_i = 0
  /\ rr = RrOff
  /\ trace = TraceOff
  /\ pkt = PktOff
  /\ wake = WakeOff
  /\ life = LifeOff
  /\ wire = WireOff
  /\ \E k \in 0..DrainFrames :
       \E m \in 0..(DrainFrames - k) :
         /\ free_top = k
         /\ fh = [op |-> "start", comp_size |-> DrainFrames, calls |-> 0,
                  cq |-> [i \in 1..m |-> FrameAddr(k + i - 1)],
                  out |-> {FrameAddr(i) : i \in (k + m)..(DrainFrames - 1)},
                  want |-> 0, n |-> 0, pre_cq |-> <<>>, pre_top |-> k,
                  pre_addrs |-> DrainAddrs]

\* a drain with the batch want
DrainCall(want) ==
  /\ fh.calls < MaxCalls /\ ~heap_smashed
  /\ LET r == Drain(prog, DrainFrames, free_addrs, free_top, fh.cq, want)
     IN /\ free_addrs' = r.free_addrs
        /\ free_top' = r.free_top
        /\ heap_smashed' = r.smashed
        /\ fh' = [fh EXCEPT !.op = "drain", !.calls = @ + 1, !.cq = r.cq,
                            !.want = want, !.n = r.n, !.pre_cq = fh.cq,
                            !.pre_top = free_top, !.pre_addrs = free_addrs]
  /\ FillFrame

\* step 1 of port_pump_once: want = comp_size, 64 if that is 0
D_pump_drain ==
  /\ prog = "fwd2"
  /\ DrainCall(IF fh.comp_size = 0 THEN CqBatch ELSE fh.comp_size)

\* the drain in the alloc loop of port_pump_once, entered when umem_alloc
\* found no frame
D_alloc_drain ==
  /\ prog = "fwd2"
  /\ free_top = 0
  /\ DrainCall(CqBatch)

\* umem_mgr_process_cq
D_process_cq ==
  /\ prog = "refactored"
  /\ DrainCall(CqBatch)

\* the kernel completes the transmission of a frame in flight
D_complete ==
  /\ fh.calls < MaxCalls /\ ~heap_smashed
  /\ fh.out # {}
  /\ LET a == CHOOSE x \in fh.out : \A y \in fh.out : x <= y
     IN fh' = [fh EXCEPT !.op = "complete", !.calls = @ + 1,
                         !.cq = Append(@, a), !.out = @ \ {a}]
  /\ UNCHANGED fl_vars
  /\ FillFrame

\* a frame is popped for a packet
D_take ==
  /\ fh.calls < MaxCalls /\ ~heap_smashed
  /\ free_top > 0
  /\ LET a == Alloc(prog, free_addrs, free_top, 1)
     IN /\ free_top' = a.free_top
        /\ fh' = [fh EXCEPT !.op = "take", !.calls = @ + 1,
                            !.out = @ \cup Range(a.out)]
  /\ UNCHANGED <<free_addrs, heap_smashed>>
  /\ FillFrame

D_Next ==
  \/ D_pump_drain
  \/ D_alloc_drain
  \/ D_process_cq
  \/ D_complete
  \/ D_take

SpecDrain == D_Init /\ [][D_Next]_vars

(***************************************************************************)
(* main of xdp_fwd2.c with the sizes it is built with, from the parsed     *)
(* arguments to the launch: the port loop takes the frames of each port's  *)
(* initial fill from the one freelist of n_frames entries, and the wiring  *)
(* loop stores n_ports / n_threads port pointers into the two arrays of    *)
(* each thread_data.  Only the counts are followed (wire.free_top,         *)
(* wire.i ports created, wire.t threads wired).                            *)
(***************************************************************************)
\* umem_params_default.n_frames = 64 * 1024
n_frames_default == 65536

\* umem_cfg_default.fill_size = XSK_RING_PROD__DEFAULT_NUM_DESCS * 2
fill_size_default == 4096

\* a port_init that goes on with no frame for the Fill ring
port_init_fill_ok_always(got) == TRUE

\* port_init: if (!got) { ... port_free(p); return NULL; }
port_init_fill_ok(got) == got # 0

W_Init ==
  /\ prog = "fwd2"
  /\ free_addrs = <<>>
  /\ free_top = 0
  /\ heap_smashed = FALSE
  /\ HarnessOff
  /\ MutexOff
  /\ n_ports = 0
  /\ n_threads = 0
  /\ main_pc = "off"
  /\ ports_done = 0
  /\ cohort = [t \in ThreadIds |-> NoCohort]
  /\ EmptyRings
  /\ wk = [t \in ThreadIds |-> WIdle]
  /\ umc = UmcCreated
  /\ thread_data = <<>>
  /\ main_i = 0
  /\ rr = RrOff
  /\ trace = TraceOff
  /\ pkt = PktOff
  /\ wake = WakeOff
  /\ life = LifeOff
  /\ fh = FhOff
  /\ \E c \in MainConfigs("fwd2") :
       wire = [pc |-> "ports", n_ports |-> c[1], n_threads |-> c[2],
               free_top |-> n_frames_default, i |-> 0, t |-> 0,
               per_thread |-> 0, smashed |-> FALSE, rc |-> 0]

\* everything the supervisor with the built-in sizes leaves alone
WireFrame ==
  UNCHANGED <<prog, fl_vars, harness_vars, mutex_vars, cfg_vars, main_pc, ports_done,
              ring_vars, wk, sup_core, rr, trace, pkt, wake, life, fh>>

\* ports[i] = port_init(&port_params[i]): the socket is created or not; the
\* initial fill pops need = fill_size (at most 4096) frames, as many as the
\* freelist has; NULL makes main return -1
W_port_init ==
  /\ wire.pc = "ports"
  /\ wire.i < wire.n_ports
  /\ \E xsk_ok \in BOOLEAN :
       LET need == IF fill_size_default > TmpSize THEN TmpSize ELSE fill_size_default
           got == IF wire.free_top >= need THEN need ELSE wire.free_top
       IN IF ~xsk_ok
          THEN wire' = [wire EXCEPT !.pc = "exit", !.rc = -1]
          ELSE IF ~port_init_fill_ok(got)
          THEN wire' = [wire EXCEPT !.pc = "exit", !.rc = -1,
                                    !.free_top = @ - got]
          ELSE wire' = [wire EXCEPT !.free_top = @ - got, !.i = @ + 1,
                                    !.pc = IF wire.i + 1 = wire.n_ports
                                           THEN "wire" ELSE "ports"]
  /\ WireFrame

\* the wiring loop, thread wire.t
W_wire ==
  /\ wire.pc = "wire"
  /\ wire.t < wire.n_threads
  /\ LET td == WireThread(wire.t, wire.n_ports, wire.n_threads)
     IN wire' = [wire EXCEPT !.t = @ + 1,
                             !.per_thread = td.n_ports_rx,
                             !.smashed = @ \/ td.smashed,
                             !.pc = IF wire.t + 1 = wire.n_threads
                                    THEN "launch" ELSE "wire"]
  /\ WireFrame

W_Next ==
  \/ W_port_init
  \/ W_wire

SpecWire == W_Init /\ [][W_Next]_vars

SpecLife == L_Init /\ [][L_Next]_vars

\* every thread keeps taking its steps; nothing is asked of the kernel
SpecQuit ==
  /\ Q_Init
  /\ [][Q_Next]_vars
  /\ \A t \in ThreadIds : WF_vars(WorkerStep(t))

(***************************************************************************)
(* C2: after any sequence of alloc and free calls, frees of addresses that *)
(* are not held included, free_top <= n_frames, and a push attempted while *)
(* free_top = n_frames leaves free_top and the array as they were.         *)
(* umem_free_one of xdp_fwd2.c has no such check.                          *)
(***************************************************************************)
C2_FreelistBound ==
  /\ free_top <= n_frames
  /\ (call.op = "free" /\ call.pre_top = n_frames)
       => (free_top = call.pre_top /\ free_addrs = call.pre_addrs)

(***************************************************************************)
(* C5: alloc(want) returns exactly min(want, free_top) addresses, the      *)
(* entries on top of the stack, top first, and lowers free_top by that     *)
(* count; it changes nothing else, and on an empty freelist it returns     *)
(* nothing.                                                                *)
(***************************************************************************)
C5_AllocPopsTop ==
  call.op = "alloc" =>
    /\ call.got = Min(call.want, call.pre_top)
    /\ Len(call.out) = call.got
    /\ \A i \in 1..call.got : call.out[i] = call.pre_addrs[call.pre_top - i]
    /\ free_top = call.pre_top - call.got
    /\ free_addrs = call.pre_addrs
    /\ (call.pre_top = 0 => (call.out = <<>> /\ free_top = 0))

\* an alloc that asked for more than the freelist held and got what it held
C5_Witness ==
  /\ call.op = "alloc"
  /\ call.pre_top > 0
  /\ call.want > call.pre_top
  /\ Len(call.out) = call.pre_top
  /\ free_top = 0

(***************************************************************************)
(* C6: the freelist is LIFO: a free that fits (the freelist has room for   *)
(* every address pushed) followed at once by an alloc of as many addresses *)
(* returns the pushed addresses in the reverse order of the pushes, and    *)
(* leaves the stack as it was before the free.                             *)
(***************************************************************************)
C6_LIFO ==
  (/\ call.op = "alloc"
   /\ prev_call.op = "free"
   /\ prev_call.pre_top + Len(prev_call.addrs) <= n_frames
   /\ call.want = Len(prev_call.addrs))
    => /\ call.out = Reverse(prev_call.addrs)
       /\ free_top = prev_call.pre_top
       /\ Live(free_addrs, free_top) = Live(prev_call.pre_addrs, prev_call.pre_top)

\* free(a) on a freelist that is neither empty nor full, then alloc(1)
C6_Witness ==
  /\ call.op = "alloc"
  /\ call.want = 1
  /\ prev_call.op = "free"
  /\ Len(prev_call.addrs) = 1
  /\ prev_call.pre_top > 0
  /\ prev_call.pre_top < n_frames
  /\ call.out = prev_call.addrs

(***************************************************************************)
(* C7: with two or more workers calling alloc and free, every freelist     *)
(* operation runs under the mutex: at most one worker is between its       *)
(* pthread_mutex_lock and its pthread_mutex_unlock, and it is the holder   *)
(* of the lock; no address is handed to two callers and no push is lost:   *)
(* every frame address is, exactly once, on the freelist or held by one    *)
(* worker (popped, or still to be pushed by the free it is in).            *)
(***************************************************************************)
\* what worker w holds: returned to it, popped so far, or not yet pushed
MHolds(w) ==
  mw[w].held \o mw[w].out \o SubSeq(mw[w].args, mw[w].i + 1, Len(mw[w].args))

RECURSIVE MAllHeld(_)
MAllHeld(n) == IF n = 0 THEN <<>> ELSE MAllHeld(n - 1) \o MHolds(n)

\* s holds every element of S exactly once
IsPermutationOf(s, S) ==
  /\ Len(s) = Cardinality(S)
  /\ {s[j] : j \in 1..Len(s)} = S

C7_MutexAtomic ==
  /\ \A w \in Workers : mw[w].pc # "idle" => lock = w
  /\ ~heap_smashed
  /\ free_top \in 0..n_frames
  /\ IsPermutationOf(Live(free_addrs, free_top) \o MAllHeld(NWorkers), FrameAddrs)

\* one worker is inside umem_alloc while another, which holds an address,
\* is outside
C7_Witness ==
  \E w, v \in Workers :
    /\ w # v
    /\ mw[w].pc = "alloc_store"
    /\ lock = w
    /\ mw[v].pc = "idle"
    /\ Len(mw[v].held) > 0

(***************************************************************************)
(* Where the frames are.                                                   *)
(***************************************************************************)
RECURSIVE SumOver(_, _)
SumOver(f, S) ==
  IF S = {} THEN 0
  ELSE LET x == CHOOSE y \in S : TRUE IN f[x] + SumOver(f, S \ {x})

\* how many of the addresses lie in frame k
CountOf(k, addrs) == Cardinality({i \in 1..Len(addrs) : FrameOf(addrs[i]) = k})

DescAddrs(ds) == [i \in 1..Len(ds) |-> ds[i].addr]

\* Free: on the freelist
NFree(k) == CountOf(k, Live(free_addrs, free_top))

\* Posted-Fill: in a Fill ring, or popped by a worker that is posting it
NPostedFill(k) ==
  SumOver([r \in PortIds |-> CountOf(k, fq[r])], PortIds)
  + SumOver([t \in ThreadIds |-> CountOf(k, wk[t].frames)], ThreadIds)

\* In-RX: in an RX ring, or in the descriptor a worker has read from it
NInRX(k) ==
  SumOver([p \in PortIds |-> CountOf(k, DescAddrs(rxq[p]))], PortIds)
  + SumOver([t \in ThreadIds |-> CountOf(k, DescAddrs(wk[t].desc))], ThreadIds)

\* Posted-TX / In-Completion: in a TX ring or in a Completion ring
NPostedTX(k) ==
  SumOver([p \in PortIds |-> CountOf(k, DescAddrs(txq[p]))], PortIds)
  + SumOver([r \in PortIds |-> CountOf(k, cq[r])], PortIds)

(***************************************************************************)
(* C1  Frame conservation: in every state after UMEM creation, whatever    *)
(* the interleaving of the workers' pump steps and the kernel's ring       *)
(* movements, every frame is in exactly one of Free, Posted-Fill, In-RX    *)
(* and Posted-TX/In-Completion: none is missing, none is there twice.      *)
(***************************************************************************)
C1_FrameConservation ==
  /\ free_top \in 0..n_frames
  /\ \A k \in Frames : NFree(k) + NPostedFill(k) + NInRX(k) + NPostedTX(k) = 1

\* a frame has gone round (its address came back through a completion drain
\* and was posted again) while a worker holds a packet and a completion waits
C1_Witness ==
  /\ main_pc = "run"
  /\ \E r \in PortIds : \E i \in 1..Len(fq[r]) : fq[r][i] \notin FrameAddrs
  /\ \E t \in ThreadIds : wk[t].pc = "tx"
  /\ \E r \in PortIds : cq[r] # <<>>

(***************************************************************************)
(* C3  Freelist uniqueness: in every state, whatever the interleaving of   *)
(* workers draining completions and allocating, no address appears twice   *)
(* in free_addrs[0..free_top).                                             *)
(***************************************************************************)
C3_FreelistUnique ==
  \A i, j \in 0..(free_top - 1) : i # j => free_addrs[i] # free_addrs[j]

\* two workers run, and two drained addresses are on the freelist
C3_Witness ==
  /\ main_pc = "run" /\ n_threads = 2
  /\ free_top >= 2
  /\ \E i, j \in 0..(free_top - 1) :
       i # j /\ free_addrs[i] \notin FrameAddrs /\ free_addrs[j] \notin FrameAddrs

(***************************************************************************)
(* C4  Address validity: in every state every entry of                     *)
(* free_addrs[0..free_top) is k * frame_size for some 0 <= k < n_frames,   *)
(* also after the completion drain has pushed back addresses copied from   *)
(* RX descriptors into TX descriptors.                                     *)
(***************************************************************************)
C4_AddressValidity ==
  \A i \in 0..(free_top - 1) : free_addrs[i] \in FrameAddrs

(***************************************************************************)
(* C8  With more than one worker running, no two workers are at the same   *)
(* time inside a reserve..submit section on the same Fill ring, or inside  *)
(* a peek..release section on the same Completion ring.                    *)
(***************************************************************************)
\* worker t is between reserve and submit on Fill ring r
InFillSection(t, r) ==
  /\ Running(t) /\ Len(cohort[t].rx) > 0
  /\ wk[t].pc = "fq_submit"
  /\ FqOf(RxPort(t)) = r

\* worker t is between peek and release on Completion ring r
InCompletionSection(t, r) ==
  /\ Running(t) /\ Len(cohort[t].rx) > 0
  /\ wk[t].pc \in {"cq_free", "cq_release"}
  /\ CqOf(TxPort(t)) = r

C8_RingsSerialized ==
  \A t, u \in ThreadIds : \A r \in PortIds :
    t # u =>
      /\ ~(InFillSection(t, r) /\ InFillSection(u, r))
      /\ ~(InCompletionSection(t, r) /\ InCompletionSection(u, r))

\* two workers are inside their sections at the same time
C8_Witness ==
  /\ n_threads = 2
  /\ \E r, s \in PortIds : r # s /\ InFillSection(0, r) /\ InFillSection(1, s)

(***************************************************************************)
(* C9  For every accepted combination of port count and thread count,      *)
(* every slot of every cohort refers to a created port, and every created  *)
(* port is in exactly one thread's cohort (so no RX or TX ring is used by  *)
(* two threads).                                                           *)
(***************************************************************************)
\* the slots of a wired thread refer to created ports
SlotsReferToPorts(td) ==
  IF prog = "fwd2"
  THEN /\ ~td.smashed
       /\ td.n_ports_rx <= MAX_PORTS_PER_THREAD
       /\ \A j \in 1..td.n_ports_rx :
            /\ td.ports_rx[j] # <<>> /\ td.ports_rx[j][1] < ports_done
            /\ td.ports_tx[j] # <<>> /\ td.ports_tx[j][1] < ports_done
  ELSE ThreadPortsExist_refactored(td.ports, td.n_ports, ports_done)

\* port p is in the cohort
InCohort(td, p) ==
  IF prog = "fwd2"
  THEN \E j \in 1..Min(td.n_ports_rx, MAX_PORTS_PER_THREAD) :
         td.ports_rx[j] = <<p>> \/ td.ports_tx[j] = <<p>>
  ELSE /\ td.n_ports # U32(0)
       /\ td.ports <= p
       /\ td.n_ports.hi > 0 \/ p < td.ports + td.n_ports.lo

C9_CohortPartition ==
  /\ \A t \in 1..Len(thread_data) : SlotsReferToPorts(thread_data[t])
  /\ main_pc = "run" =>
       \A p \in 0..(ports_done - 1) :
         Cardinality({t \in 1..Len(thread_data) : InCohort(thread_data[t], p)}) = 1

(***************************************************************************)
(* C10  umem_mgr_create is all-or-nothing: when a step fails, everything   *)
(* the earlier steps acquired is released, in the reverse order of         *)
(* acquisition, and NULL is returned (main goes no further); a manager is  *)
(* returned only with every resource acquired and none released.           *)
(***************************************************************************)
C10_CreateAllOrNothing ==
  /\ umc.ret = "NULL" =>
       /\ umc.held = <<>>
       /\ umc.released = Reverse(umc.acquired)
       /\ main_pc = "exit"
  /\ umc.ret = "u" =>
       /\ umc.held = <<"u", "addr", "umem", "free_addrs", "lock">>
       /\ umc.released = <<>>
  /\ main_pc \notin {"create", "exit"} => umc.ret = "u"

\* pthread_mutex_init, the last step, has failed: four resources were held
C10_Witness ==
  /\ umc.ret = "NULL"
  /\ Len(umc.acquired) = 4
  /\ Len(umc.released) = 4

(***************************************************************************)
(* C11  For every cohort of size n >= 1, the TX port used for slot i is    *)
(* the port at slot (i + 1) mod n of the same cohort; a cohort of one port *)
(* forwards from that port to itself.                                      *)
(***************************************************************************)
\* the ports of thread t's cohort, in slot order
CohortPorts(t) ==
  IF prog = "fwd2" THEN cohort[t].rx
  ELSE ThreadPorts_refactored(t, n_ports, n_threads)

\* the ports thread t transmits to what it receives on port p
TxPortsOf(t, p) ==
  {cohort[t].tx[k] : k \in {j \in 1..Len(cohort[t].rx) : cohort[t].rx[j] = p}}

C11_TxIsNextSlot ==
  main_pc = "run" =>
    \A t \in ThreadIds :
      t < n_threads =>
        LET ports == CohortPorts(t)
            n == Len(ports)
        IN \A i \in 0..(n - 1) :
             TxPortsOf(t, ports[i + 1]) = {ports[((i + 1) % n) + 1]}

(***************************************************************************)
(* C12  Round-robin service: for every cohort size n from 1 to             *)
(* MAX_PORTS_PER_THREAD, a running worker pumps the slots in the order     *)
(* 0, 1, ..., n - 1, 0, ...: the slot pumped in cycle c is c mod n.         *)
(***************************************************************************)
C12_RoundRobin ==
  rr.n > 0 => rr.i = rr.cycle % rr.n

(***************************************************************************)
(* C13: within one (rx-port, tx-port) pair the descriptors submitted to    *)
(* the TX ring are, at all times, a prefix of the descriptors dequeued     *)
(* from the RX ring: packets leave in the order they arrived, none is      *)
(* duplicated and none is invented.                                        *)
(***************************************************************************)
IsPrefix(s, r) == Len(s) <= Len(r) /\ SubSeq(r, 1, Len(s)) = s

C13_TxPrefixOfRx ==
  \A pr \in PortIds \X PortIds : IsPrefix(trace.tx[pr], trace.rx[pr])

\* two different descriptors have gone through one pair
C13_Witness ==
  \E pr \in PortIds \X PortIds :
    /\ Len(trace.tx[pr]) >= 2
    /\ trace.tx[pr][1] # trace.tx[pr][2]

(***************************************************************************)
(* C14: the (addr, len) written into the TX descriptor is the (addr, len)  *)
(* of the RX descriptor dequeued in the same cycle: every step that adds a *)
(* descriptor to a TX ring adds the one its pair dequeued last.            *)
(***************************************************************************)
C14_TxDescEqualsRxDesc ==
  [][\A t \in ThreadIds :
       (Running(t) /\ wk[t].pc = "tx" /\ wk'[t].pc # "tx") =>
         LET pr == <<RxPort(t), TxPort(t)>>
             rd == trace.rx[pr][Len(trace.rx[pr])]
             td == txq'[TxPort(t)][Len(txq'[TxPort(t)])]
         IN /\ Len(txq'[TxPort(t)]) = Len(txq[TxPort(t)]) + 1
            /\ td.addr = rd.addr
            /\ td.len = rd.len]_vars

\* a descriptor with a non-zero offset and length is on a TX ring
C14_Witness ==
  \E p \in PortIds : \E k \in 1..Len(txq[p]) :
    /\ txq[p][k].len > 0
    /\ txq[p][k].addr % frame_size # 0
    /\ \E pr \in PortIds \X PortIds : Len(trace.tx[pr]) > 0

(***************************************************************************)
(* C15: for every forwarded packet the first 12 bytes of the frame at the  *)
(* TX submit are the bytes seen at RX with the 6-byte destination MAC and  *)
(* the 6-byte source MAC exchanged.  forward_one_packet of                 *)
(* xdp_fwd2_refactored.c submits the frame as it was received.             *)
(***************************************************************************)
C15_MacsExchanged ==
  pkt.at = "tx" =>
    /\ Len(pkt.tx) = 12
    /\ SubSeq(pkt.tx, 1, 6) = SubSeq(pkt.rx, 7, 12)
    /\ SubSeq(pkt.tx, 7, 12) = SubSeq(pkt.rx, 1, 6)

\* xdp_fwd2.c alone: the exchange is made
C15_MacsExchanged_fwd2 == prog = "fwd2" => C15_MacsExchanged

C17_QuitLeavesLoop ==
  \A t \in ThreadIds :
    (life.threads[t] = "running" /\ QuitFlag(t)) ~> (life.threads[t] = "exited")

\* a worker with its flag set is inside a pump that waits for the kernel
C17_Stuck ==
  \E t \in ThreadIds :
    /\ Running(t) /\ QuitFlag(t)
    /\ \/ wk[t].pc = "tx" /\ Len(txq[TxPort(t)]) = tx_size
       \/ wk[t].pc = "alloc" /\ free_top = 0 /\ cq[CqOf(TxPort(t))] = <<>>

(***************************************************************************)
(* C18: on a signal every worker's quit flag is set, then every spawned    *)
(* worker is joined, then every port is destroyed, then the UMEM manager   *)
(* is destroyed.  No port is destroyed while a worker is still running,    *)
(* and the UMEM manager is destroyed only after every port.                *)
(***************************************************************************)
Spawned(t) == life.threads[t] \in {"running", "exited", "joined"}

C18_ShutdownOrder ==
  ~life.failed =>
    /\ (\E t \in LifeThreadIds : life.threads[t] = "joined") =>
         \A u \in LifeThreadIds : Spawned(u) => QuitFlag(u)
    /\ (\E p \in LifePortIds : life.ports[p] = "freed") =>
         \A u \in LifeThreadIds : Spawned(u) => life.threads[u] = "joined"
    /\ life.umem = "destroyed" =>
         /\ \A p \in LifePortIds : life.ports[p] # "live"
         /\ \A u \in LifeThreadIds : Spawned(u) => life.threads[u] = "joined"
    /\ life.pc \in {"join", "free", "destroy"} =>
         \A u \in LifeThreadIds : u < n_threads => Spawned(u) /\ QuitFlag(u)

\* a shutdown on a signal has run to its end: two or more workers joined, two
\* or more ports destroyed, the UMEM manager destroyed, exit code 0
C18_Witness ==
  /\ ~life.failed
  /\ life.pc = "exit"
  /\ life.rc = 0
  /\ life.umem = "destroyed"
  /\ n_threads >= 2
  /\ n_ports >= 2
  /\ \A t \in LifeThreadIds : t < n_threads => life.threads[t] = "joined"
  /\ \A p \in LifePortIds : p < n_ports => life.ports[p] = "freed"

(***************************************************************************)
(* C19: if the number of ports is not an integer multiple of the number    *)
(* of workers (3 ports and 2 workers, say), startup ends with a non-zero   *)
(* exit before the UMEM manager or any socket is created and before any    *)
(* worker is spawned.  parse_args of xdp_fwd2.c rejects such a command     *)
(* line; main of xdp_fwd2_refactored.c has no such test.                   *)
(***************************************************************************)
Misconfigured == n_threads > 0 /\ n_ports % n_threads # 0

NothingBuilt ==
  /\ life.umem = "none"
  /\ \A p \in LifePortIds : life.ports[p] \notin {"live", "freed"}
  /\ \A t \in LifeThreadIds : ~Spawned(t)

C19_MisconfigRejected ==
  (Misconfigured /\ life.pc # "parse") =>
    /\ life.pc = "exit"
    /\ life.rc # 0
    /\ NothingBuilt

\* xdp_fwd2.c alone
C19_MisconfigRejected_fwd2 == prog = "fwd2" => C19_MisconfigRejected

\* xdp_fwd2.c has turned down 3 ports for 2 workers
C19_Witness_fwd2 ==
  /\ prog = "fwd2"
  /\ n_ports = 3 /\ n_threads = 2
  /\ life.pc = "exit"
  /\ life.rc = -1

(***************************************************************************)
(* C20: if a startup step fails after earlier resources were built (a port *)
(* fails to initialise after the UMEM manager and earlier ports exist, or  *)
(* a worker fails to spawn after others started), every resource built so  *)
(* far is released in reverse order (workers stopped and joined, ports     *)
(* destroyed, UMEM manager destroyed) and the process exits with a         *)
(* non-zero code.                                                          *)
(***************************************************************************)
C20_StartupUnwinds ==
  (life.failed /\ life.pc = "exit") =>
    /\ life.rc # 0
    /\ ~life.wild
    /\ life.umem # "live"
    /\ \A p \in LifePortIds : life.ports[p] # "live"
    /\ \A t \in LifeThreadIds : Spawned(t) => life.threads[t] = "joined"

\* a failed startup has ended with a port and the UMEM manager left behind
C20_LeftBehind ==
  /\ life.failed /\ life.pc = "exit"
  /\ life.umem = "live"
  /\ \E p \in LifePortIds : life.ports[p] = "live"

(***************************************************************************)
(* C21: after traffic has stopped and the workers have forwarded every     *)
(* in-flight RX descriptor and drained every TX completion, the number of  *)
(* Free frames is n_frames again.  The frames posted to the Fill rings     *)
(* (fill_size per ring at start, one more per forwarded packet) stay       *)
(* there.                                                                  *)
(***************************************************************************)
\* the MaxPkts packets have come and gone: nothing on an RX, TX or Completion
\* ring, every worker between two cycles with nothing in hand
Drained ==
  /\ main_pc = "run"
  /\ trace.n_rx = MaxPkts
  /\ \A p \in PortIds :
       /\ rxq[p] = <<>> /\ txq[p] = <<>> /\ cq[p] = <<>>
       /\ rx_held[p] = 0 /\ cq_held[p] = 0 /\ fq_resv[p] = 0
  /\ \A t \in ThreadIds :
       /\ wk[t].pc = "cq_peek"
       /\ wk[t].desc = <<>>
       /\ wk[t].frames = <<>>

C21_FreelistFullAfterDrain == Drained => free_top = n_frames

\* a drained state is reached, with frames still on a Fill ring
C21_DrainedWithFill ==
  /\ Drained
  /\ \E p \in PortIds : fq[p] # <<>>


\* the room the Fill ring had before the last call
PreRoom == fh.fill_size - Len(fh.pre_fq)

\* the initial fill met a ring that could take only part of the popped frames
ShortInit == fh.op = "init" /\ 0 < PreRoom /\ PreRoom < Len(fh.popped)

\* C22: an initial fill whose Fill ring can reserve only part of the popped
\* frames posts as many frames as the ring could take, leaves the others on
\* the freelist and reports success.
C22_PartialInitFill ==
  ShortInit =>
    /\ fh.ret = 0
    /\ Len(fh.fq) = Len(fh.pre_fq) + PreRoom
    /\ free_top = fh.pre_top - PreRoom


\* the frames the last call popped are the n entries that were on top of the
\* freelist, top first (a pop leaves the array as it is)
PoppedTop(n) ==
  /\ Len(fh.popped) = n
  /\ free_top = fh.pre_top - n
  /\ \A i \in 1..n : fh.popped[i] = free_addrs[fh.pre_top - i]

\* C23: the initial fill, on the ring as created, pops min(fill_size,
\* free_top) frames and posts exactly those; when the ring is as large as
\* the UMEM the freelist is empty after it and no replenishment posts a
\* frame before a completion has been drained to the freelist.
C23_InitialFill ==
  /\ (fh.op = "init" /\ fh.pre_fq = <<>>) =>
       /\ PoppedTop(Min(fh.fill_size, fh.pre_top))
       /\ fh.fq = fh.popped
  /\ (fh.fresh /\ fh.fill_size = n_frames) =>
       /\ fh.op = "init" => free_top = 0 /\ Len(fh.fq) = n_frames
       /\ fh.refilled => fh.drained

\* a full UMEM was posted by the initial fill, a completion was drained and a
\* replenishment has then posted a frame
C23_Witness ==
  /\ fh.fresh /\ fh.fill_size = n_frames /\ fh.inited
  /\ fh.op = "refill" /\ fh.refilled /\ fh.drained


\* the frames on the freelist
FreeNow == Range(Live(free_addrs, free_top))

\* C24: a replenishment of the Fill ring either posts every frame it popped
\* or, when the reservation is not granted, has every popped frame back on
\* the freelist; the number of free frames plus the number of posted frames
\* is the same after the call as before it.
C24_RefillKeepsFrames ==
  fh.op = "refill" =>
    /\ \/ /\ fh.fq = fh.pre_fq \o fh.popped
          /\ FreeNow = fh.pre_free \ Range(fh.popped)
       \/ /\ fh.fq = fh.pre_fq
          /\ FreeNow = fh.pre_free
    /\ Range(fh.popped) \subseteq fh.pre_free
    /\ Cardinality(FreeNow) = free_top
    /\ free_top + Len(fh.fq) = fh.pre_top + Len(fh.pre_fq)

\* umem_mgr_fill_fq popped more frames than the ring had room for and pushed
\* them back
C24_Witness ==
  /\ prog = "refactored" /\ fh.op = "refill"
  /\ Len(fh.popped) > PreRoom /\ fh.ret = 0
  /\ fh.fq = fh.pre_fq /\ free_top = fh.pre_top


\* port_init gave up after frames had been popped for the port's Fill ring
FailedAfterPop ==
  /\ prog = "fwd2" /\ fh.op = "init" /\ fh.ret = -1 /\ fh.popped # <<>>

\* C29: a port_init that fails after frames were popped for the initial fill
\* (the Fill ring did not grant the popped count) has pushed the popped
\* frames back: free_top is what it was before the call.
C29_FailedInitReturnsFrames ==
  FailedAfterPop => /\ free_top = fh.pre_top
                    /\ FreeNow = fh.pre_free

\* the same for the fill of xdp_fwd2_refactored.c
FailedInitReturnsFrames_refactored ==
  (prog = "refactored" /\ fh.op = "init" /\ fh.ret = -1 /\ fh.popped # <<>>)
    => /\ free_top = fh.pre_top
       /\ FreeNow = fh.pre_free


\* the batch bound of the last drain: 64, or comp_size in step 1 of
\* port_pump_once
BatchBound == IF fh.want = CqBatch THEN CqBatch ELSE fh.comp_size

\* C25: one completion drain consumes at most the batch bound of entries,
\* pushes each consumed address onto the freelist once, in ring order, and
\* releases exactly the entries it consumed; on an empty Completion ring it
\* changes neither the ring nor the freelist.
C25_DrainBatch ==
  fh.op = "drain" =>
    /\ fh.want = BatchBound
    /\ fh.n <= BatchBound
    /\ fh.n <= Len(fh.pre_cq)
    /\ (fh.n < Len(fh.pre_cq) => fh.n = BatchBound)
    /\ fh.cq = SubSeq(fh.pre_cq, fh.n + 1, Len(fh.pre_cq))
    /\ free_top = fh.pre_top + fh.n
    /\ ~heap_smashed
    /\ \A i \in 0..(DrainFrames - 1) :
         free_addrs[i] = IF fh.pre_top <= i /\ i < free_top
                         THEN fh.pre_cq[i - fh.pre_top + 1]
                         ELSE fh.pre_addrs[i]
    /\ (fh.pre_cq = <<>> =>
          /\ fh.n = 0 /\ fh.cq = <<>>
          /\ free_top = fh.pre_top /\ free_addrs = fh.pre_addrs)

\* a drain of a ring that held more than the batch of 64 took exactly 64
C25_Witness ==
  /\ fh.op = "drain" /\ Len(fh.pre_cq) > CqBatch
  /\ fh.n = CqBatch /\ Len(fh.cq) = Len(fh.pre_cq) - CqBatch


\* worker t ends a cycle in which it forwarded a packet
ForwardCycleEnds(t) ==
  /\ wk[t].pc \in {"replenish", "fq_reserve", "fq_submit"}
  /\ wk'[t].pc = "cq_peek"

\* worker t ends a cycle in which it found the RX ring empty
EmptyCycleEnds(t) ==
  /\ wk[t].pc = "rx_peek"
  /\ wk'[t].pc = "cq_peek"

\* what C26 asks of a step
OneFramePerPacket ==
  \A t \in ThreadIds :
    /\ ForwardCycleEnds(t) =>
         /\ Len(wk[t].frames) = 1
         /\ fq'[FqOf(RxPort(t))] = Append(fq[FqOf(RxPort(t))], wk[t].frames[1])
         /\ wk'[t].frames = <<>>
    /\ EmptyCycleEnds(t) =>
         /\ wk[t].frames = <<>> /\ wk'[t].frames = <<>>
         /\ UNCHANGED <<fl_vars, fq>>

\* C26: a pump cycle that forwards a packet has popped exactly one frame and
\* posts exactly that frame to the Fill ring of the RX port before it
\* returns; a cycle that finds the RX ring empty takes no frame.
C26_OneFramePerPacket == [][OneFramePerPacket]_vars

\* the same for xdp_fwd2.c alone
C26_OneFramePerPacket_fwd2 == [][prog = "fwd2" => OneFramePerPacket]_vars


\* worker t is between two pump cycles
BetweenCycles(t) == t < n_threads /\ wk[t].pc = "cq_peek"

\* C27: between pump cycles, for each slot of a cohort the n_pkts_tx of the
\* slot's TX port equals the n_pkts_rx of the slot's RX port.
C27_TxCountEqualsRxCount ==
  (trace.on /\ main_pc = "run") =>
    \A t \in ThreadIds :
      BetweenCycles(t) =>
        \A k \in 1..Len(cohort[t].rx) :
          trace.n_pkts_tx[cohort[t].tx[k]] = trace.n_pkts_rx[cohort[t].rx[k]]

\* every worker is between cycles and a slot between two different ports has
\* forwarded MaxPkts packets
C27_Witness ==
  /\ trace.on /\ main_pc = "run"
  /\ \A t \in ThreadIds : t < n_threads => wk[t].pc = "cq_peek"
  /\ \E t \in ThreadIds :
       /\ t < n_threads
       /\ \E k \in 1..Len(cohort[t].rx) :
            /\ cohort[t].rx[k] # cohort[t].tx[k]
            /\ trace.n_pkts_rx[cohort[t].rx[k]] = MaxPkts
            /\ trace.n_pkts_tx[cohort[t].tx[k]] = MaxPkts


\* C28: in every configuration main accepts, a cohort is wired with at most
\* MAX_PORTS_PER_THREAD slots: the wiring loop stores nothing past the end
\* of ports_rx[] and ports_tx[].
C28_WiringWithinArrays ==
  wire.t > 0 =>
    /\ wire.per_thread <= MAX_PORTS_PER_THREAD
    /\ ~wire.smashed

\* one thread has been wired with all MAX_PORTS_PER_THREAD slots
C28_Witness ==
  /\ wire.pc = "launch"
  /\ wire.n_threads = 1
  /\ wire.per_thread = MAX_PORTS_PER_THREAD

=============================================================================
